---- MODULE Spec2Model ----
(***************************************************************************)
(* pr-bro: the fetch / cache / score engine.                               *)
(*                                                                         *)
(*   SpecSearch search_prs (github/search.rs)                              *)
(*   Spec       search_and_enrich_prs (github/search.rs); its call of      *)
(*              search_prs is one step that draws what search_prs returns  *)
(*   SpecScore  calculate_score (scoring/engine.rs) on drawn inputs        *)
(*                                                                         *)
(* Every specification owns a group of variables and leaves the other      *)
(* groups at their idle values.                                            *)
(*                                                                         *)
(* Conventions: Option<T> is a sequence of length <= 1 (None is <<>>,      *)
(* Some(v) is <<v>>); a Rust String that the code only searches for        *)
(* substrings is the set of the searched substrings it contains.           *)
(***************************************************************************)
EXTENDS Integers, Sequences, FiniteSets, Bags, TLC

VARIABLES
    \* ---- search_prs (github/search.rs)
    spc,              \* "call" | "sleep" | "done"
    attempt,          \* search_prs: attempt
    sleeps,           \* history: the delays search_prs has slept, in ms, in order
    errors,           \* history: the error texts of the failed attempts, in order
    search_result,    \* None, or Some(the Result search_prs returned)
    \* ---- search_and_enrich_prs (github/search.rs)
    pc,               \* "search" | "enrich" | "done"
    exclude_patterns, \* search_and_enrich_prs: exclude_patterns argument
    prs,              \* the items of the search result, by position
    next_pr,          \* prs_iter: the position of the next item to hand out
    st,               \* position -> "queued" | "new" | "running" | "files" | "done"
    handed,           \* history: position -> number of enrichment tasks given the item
    joined,           \* history: position -> what try_join! returned: "no" | "ok" | "err"
    rate_limited,     \* the shared AtomicBool
    enriched_prs,     \* bag of finished items (the Vec without its order)
    rl_observed,      \* history: some enrichment request failed with a rate-limit signal
    result,           \* None, or Some(the Result search_and_enrich_prs returned)
    \* ---- calculate_score (scoring/engine.rs)
    score_pr,         \* the item scored
    score_age,        \* Utc::now() - created_at at the call, in seconds
    score_config,     \* the ScoringConfig
    score_result,     \* None, or Some(the ScoreResult returned)
    \* fetch_and_score_prs (SpecFetch)
    f_pc,             \* "start", "collect", "ratelimit" or "done"
    queries,          \* config.queries
    global_scoring,   \* config.scoring.unwrap_or_default()
    snooze_state,     \* url -> SnoozeEntry
    futures,          \* the query indices whose future is still in the stream
    f_results,        \* query index -> None, or Some(the result it produced)
    all_prs,          \* the (pr, query_index) pairs collected so far
    any_succeeded,
    unique_prs,
    pr_to_query_index,
    active_scored,
    snoozed_scored,
    f_result,         \* None, or Some(the Result returned)
    \* DiskCache (SpecCache)
    c_keys,           \* CacheData.keys: uri -> CacheKey
    c_responses,      \* CacheData.responses: uri -> CachedResponse
    c_disk,           \* the cacache store: uri -> DiskCacheEntry
    c_writer,         \* None, or Some(the DiskCacheWriter in use)
    c_hit,            \* None, or Some(the entry a try_hit has read from disk)
    c_closed,         \* Some(the writer the last step finished dropping)
    c_ret,            \* Some(what try_hit last returned, since memory was cleared)
    \* ---- one call of a pure function (SpecMerge, SpecValidate, SpecApply, SpecEffect, SpecOverlap)
    fn_in,            \* the arguments of the call, a record
    fn_out,           \* None, or Some(the value returned)
    \* ---- run_tui (tui/mod.rs)
    pending_fetch,    \* None, or Some(the spawned fetch task)
    is_loading,       \* app.is_loading
    needs_refresh,    \* app.needs_refresh
    force_refresh,    \* app.force_refresh
    input_mode,       \* app.input_mode: "Normal" | "SnoozeInput" | "Help"
    recent_interaction, \* app.last_interaction.elapsed() < 10 s
    shown_prs,        \* the fetch whose lists update_prs last displayed, 0 for none
    spawned,          \* history: the number of fetch tasks spawned
    flash,            \* the kind of the last flash message, "" for none
    should_quit,      \* app.should_quit
    in_flight,        \* the numbers of the fetch tasks whose fetch is running
    refresh_kind,     \* what the last loop iteration spawned: "none" | "auto" | "manual"
    cleared,          \* the last loop iteration called cache.clear_memory()
    app_snooze_state, \* app.snooze_state: the urls snoozed
    app_active_prs,   \* app.active_prs: the urls listed as active
    app_snoozed_prs,  \* app.snoozed_prs: the urls listed as snoozed
    fetch_snooze,     \* snooze_clone: the snooze state the last spawned fetch was given
    undo_stack        \* app.undo_stack, newest first

searchVars == <<spc, attempt, sleeps, errors, search_result>>

pipeVars == <<pc, exclude_patterns, prs, next_pr, st, handed, joined,
              rate_limited, enriched_prs, rl_observed, result>>

scoreVars == <<score_pr, score_age, score_config, score_result>>

fetchVars == <<f_pc, queries, global_scoring, snooze_state, futures, f_results,
               all_prs, any_succeeded, unique_prs, pr_to_query_index,
               active_scored, snoozed_scored, f_result>>

cacheVars == <<c_keys, c_responses, c_disk, c_writer, c_hit, c_closed, c_ret>>

callVars == <<fn_in, fn_out>>

tuiVars == <<pending_fetch, is_loading, needs_refresh, force_refresh, input_mode,
             recent_interaction, shown_prs, spawned, flash, should_quit, in_flight,
             refresh_kind, cleared, app_snooze_state, app_active_prs,
             app_snoozed_prs, fetch_snooze, undo_stack>>

vars == <<searchVars, pipeVars, scoreVars, fetchVars, cacheVars, callVars, tuiVars>>

None == <<>>
Some(v) == <<v>>
IsSome(o) == Len(o) = 1
Unwrap(o) == o[1]

\* Result<T, E>
Ok(v) == [ok |-> TRUE, val |-> v]
Err(e) == [ok |-> FALSE, val |-> e]

-----------------------------------------------------------------------------
(* Bounds *)

\* search hits beyond the enrichment pool size
ExtraHits == 2
\* the largest search result whose enrichment requests are tried with every
\* reply (success and each failure) and with file exclusion configured;
\* larger results are tried with successful replies in every completion order
MaxVariedHits == 3

-----------------------------------------------------------------------------
(* search_prs *)

max_retries == 3

MAX_CONCURRENT_ENRICHMENTS == 10

\* The substrings search_prs and enrich_pr_with_rate_limit_check look for in
\* an error's text.
Markers == {"401", "Bad credentials", "rate limit", "403",
            "do not have permission", "resources do not exist"}

\* Error texts: the set of markers the text contains, "timeout" and "500" standing
\* for other content.
ErrorTexts == {e \in SUBSET (Markers \cup {"timeout", "500"}) : Cardinality(e) <= 2}

Contains(text, marker) == marker \in text

AuthError == [type |-> "AuthError", msg |-> "Authentication failed", quoted |-> {}]
RateLimitError == [type |-> "anyhow", msg |-> "rate limit exceeded", quoted |-> {}]
PermissionError == [type |-> "anyhow", msg |-> "not found or no access", quoted |-> {}]
\* search.rs:78: the message quotes the last error.
RetriesExhausted(error_str) ==
    [type |-> "anyhow", msg |-> "error after max_retries attempts", quoted |-> error_str]

\* Mutant of ImmediateError: a 403 without the words "rate limit" is taken
\* for a transient failure.
ImmediateErrorNo403(error_str) ==
    IF Contains(error_str, "401") \/ Contains(error_str, "Bad credentials")
    THEN Some(AuthError)
    ELSE IF Contains(error_str, "rate limit")
    THEN Some(RateLimitError)
    ELSE IF Contains(error_str, "do not have permission")
            \/ Contains(error_str, "resources do not exist")
    THEN Some(PermissionError)
    ELSE None

\* search.rs:59-74: the error search_prs returns at once for this text, or
\* None when the failure is transient.
ImmediateError(error_str) ==
    IF Contains(error_str, "401") \/ Contains(error_str, "Bad credentials")
    THEN Some(AuthError)
    ELSE IF Contains(error_str, "rate limit") \/ Contains(error_str, "403")
    THEN Some(RateLimitError)
    ELSE IF Contains(error_str, "do not have permission")
            \/ Contains(error_str, "resources do not exist")
    THEN Some(PermissionError)
    ELSE None

RECURSIVE Pow2(_)
Pow2(n) == IF n = 0 THEN 1 ELSE 2 * Pow2(n - 1)

\* search.rs:81
BackoffDelay(n) == 100 * Pow2(n - 1)

\* A raw search hit: whether it is a pull request, and the path of its
\* html_url split at '/' (empty segments dropped).
RawHit(is_pr, path, number) ==
    [is_pr |-> is_pr, path |-> path, number |-> number,
     created_at |-> 0, labels |-> {}]

\* search.rs:28-34
RepoOf(path) ==
    IF Len(path) >= 2 THEN <<path[1], path[2]>> ELSE <<"unknown", "unknown">>

\* search.rs:36-51
NewPullRequest(hit) ==
    [number |-> hit.number,
     repo |-> RepoOf(hit.path),
     url |-> <<hit.path, hit.number>>,
     created_at |-> hit.created_at,
     labels |-> hit.labels,
     additions |-> 0,
     deletions |-> 0,
     approvals |-> 0,
     user_has_reviewed |-> FALSE,
     filtered_size |-> None]

\* search.rs:21-53
HitsToPrs(items) ==
    LET kept == SelectSeq(items, LAMBDA h : h.is_pr)
    IN  [i \in 1..Len(kept) |-> NewPullRequest(kept[i])]

PrPath == <<"owner", "repo", "pull", "n">>

\* The search responses tried: n pull requests for every n up to the pool
\* size plus ExtraHits, a response mixing an issue with pull requests, and
\* one whose URL has too short a path.
SearchResponses ==
    {[i \in 1..n |-> RawHit(TRUE, PrPath, i)] :
        n \in 0..(MAX_CONCURRENT_ENRICHMENTS + ExtraHits)}
    \cup {<<RawHit(FALSE, PrPath, 1), RawHit(TRUE, PrPath, 2)>>,
          <<RawHit(TRUE, <<"x">>, 1)>>}

-----------------------------------------------------------------------------
(* enrich_pr *)

\* What a request of an enrichment task came back with.
Reply(kind, a, b, text) == [kind |-> kind, a |-> a, b |-> b, text |-> text]
Pending == Reply("pending", 0, FALSE, {})
Failed(text) == Reply("err", 0, FALSE, text)

\* Texts of the request failures tried: a rate-limit signal in either of its
\* two spellings, or another failure.
RequestErrors == {Failed({"rate limit"}), Failed({"403"}), Failed({})}

\* Whether the requests of a search result of n items are tried with every
\* reply.
Varied(n) == n <= MaxVariedHits

\* fetch_pr_details: Ok((additions, deletions))
DetailReplies(n) ==
    {Reply("ok", 5, 3, {})} \cup (IF Varied(n) THEN RequestErrors ELSE {})
\* fetch_pr_reviews: Ok((approved_count, user_has_reviewed))
ReviewReplies(n) ==
    {Reply("ok", 2, TRUE, {})} \cup (IF Varied(n) THEN RequestErrors ELSE {})

IsRateLimitText(text) == Contains(text, "rate limit") \/ Contains(text, "403")

\* tokio::try_join! polls the detail request, then the review request, and
\* returns when both are Ok or at the first Err it sees; the other request
\* may then still be pending, and is dropped.
JoinReturns(d, r) ==
    \/ d.kind = "ok" /\ r.kind = "ok"
    \/ d.kind = "err" /\ r.kind = "pending"
    \/ d.kind # "err" /\ r.kind = "err"

\* A changed file of a pull request: its path split at '/', and its counts.
File(path, additions, deletions) ==
    [path |-> path, additions |-> additions, deletions |-> deletions]

\* glob::Pattern::new fails on "[" and accepts the other patterns tried.
PatternCompiles(p) == p # "["

\* glob::Pattern::matches on the basenames tried.
PatternMatches(p, basename) ==
    \/ p = "*"
    \/ p = "*.lock" /\ basename \in {"Cargo.lock", "yarn.lock"}

RECURSIVE SumSizes(_)
SumSizes(files) ==
    IF files = <<>> THEN 0
    ELSE Head(files).additions + Head(files).deletions + SumSizes(Tail(files))

\* search.rs:166-188: Some(total) on success, None when a pattern is invalid.
apply_size_exclusions(files, patterns) ==
    IF \E i \in 1..Len(patterns) : ~PatternCompiles(patterns[i])
    THEN None
    ELSE Some(SumSizes(SelectSeq(files, LAMBDA f :
            ~\E i \in 1..Len(patterns) :
                PatternMatches(patterns[i], f.path[Len(f.path)]))))

FileLists == {<<>>,
              <<File(<<"src", "main.rs">>, 4, 1), File(<<"Cargo.lock">>, 100, 50)>>}
FileReply(kind, files, text) == [kind |-> kind, files |-> files, text |-> text]
\* fetch_pr_file_list: Ok(files)
FileReplies == {FileReply("ok", fl, {}) : fl \in FileLists}
               \cup {FileReply("err", <<>>, e.text) : e \in RequestErrors}

ExcludeArgs == {None, Some(<<>>), Some(<<"*.lock">>), Some(<<"*.lock", "[">>)}

\* search.rs:198-201: the text of the error enrich_pr returns before any
\* request, or None. The text quotes pr.repo.
RepoFormatError(pr) ==
    IF Len(pr.repo) # 2
    THEN Some({m \in Markers : \E i \in 1..Len(pr.repo) : pr.repo[i] = m}
              \cup {"Invalid repo format"})
    ELSE None

\* Mutant of ApplyJoin: the sizes are stored as soon as the detail request
\* has succeeded.
ApplyJoinPartial(pr, d, r) ==
    IF d.kind = "ok"
    THEN IF r.kind = "ok"
         THEN [pr EXCEPT !.additions = d.a, !.deletions = d.b,
                         !.approvals = r.a, !.user_has_reviewed = r.b]
         ELSE [pr EXCEPT !.additions = d.a, !.deletions = d.b]
    ELSE pr

\* search.rs:209-215 and 239-243: the item after try_join! returned.
ApplyJoin(pr, d, r) ==
    IF d.kind = "ok" /\ r.kind = "ok"
    THEN [pr EXCEPT !.additions = d.a, !.deletions = d.b,
                    !.approvals = r.a, !.user_has_reviewed = r.b]
    ELSE pr

\* search.rs:217-218: whether enrich_pr goes on to fetch the file list.
FilesConfigured(exclude) == IsSome(exclude) /\ Len(Unwrap(exclude)) > 0

WantsFiles(exclude, d, r) ==
    d.kind = "ok" /\ r.kind = "ok" /\ FilesConfigured(exclude)

\* search.rs:219-233: the item after the file-list request returned.
ApplyFiles(pr, exclude, f) ==
    IF f.kind = "ok"
    THEN [pr EXCEPT !.filtered_size = apply_size_exclusions(f.files, Unwrap(exclude))]
    ELSE pr

-----------------------------------------------------------------------------
(* search_and_enrich_prs: the worker pool *)

\* The state of the pool, as a record, so that the loop can be written as
\* operators on it.
Pool == [prs |-> prs, next_pr |-> next_pr, st |-> st, handed |-> handed,
         rate_limited |-> rate_limited, enriched_prs |-> enriched_prs]

\* futures.push(enrich_pr_with_rate_limit_check(.., prs_iter.next(), ..))
PushNext(S) ==
    IF S.next_pr <= Len(S.prs)
    THEN [S EXCEPT !.st[S.next_pr] = "new",
                   !.handed[S.next_pr] = @ + 1,
                   !.next_pr = @ + 1]
    ELSE S

\* search.rs:294-304: the initial batch.
RECURSIVE FillBatch(_, _)
FillBatch(S, n) == IF n = 0 THEN S ELSE FillBatch(PushNext(S), n - 1)

\* Mutant of PushResult: the finished item is not kept.
PushResultLost(S, i) == [S EXCEPT !.st[i] = "done"]

\* search.rs:308: enriched_prs.push(pr)
PushResult(S, i) ==
    [S EXCEPT !.st[i] = "done",
              !.enriched_prs = @ (+) SetToBag({S.prs[i]})]

\* search.rs:311-321: the next item is handed out unless the flag is set.
Refill(S) == IF ~S.rate_limited THEN PushNext(S) ELSE S

\* search.rs:307-322 for a task that has just returned item i, followed by
\* the first poll of every task pushed and not yet polled, oldest first
\* (search.rs:255-270 up to the first await). A task whose first poll
\* returns at once is collected in turn.
RECURSIVE Collect(_, _), PollNew(_)
Collect(S, i) == PollNew(Refill(PushResult(S, i)))
PollNew(S) ==
    LET new == {i \in 1..Len(S.prs) : S.st[i] = "new"}
    IN  IF new = {} THEN S
        ELSE LET i == CHOOSE k \in new : \A j \in new : k <= j
                 err == RepoFormatError(S.prs[i])
             IN  IF S.rate_limited
                 THEN Collect(S, i)
                 ELSE IF IsSome(err)
                 THEN Collect([S EXCEPT !.rate_limited =
                                   @ \/ IsRateLimitText(Unwrap(err))], i)
                 ELSE PollNew([S EXCEPT !.st[i] = "running"])

InFlight(S) == {i \in 1..Len(S.prs) : S.st[i] \in {"new", "running", "files"}}

\* search.rs:324-327: once futures is empty the items never handed out are
\* appended and the list is returned.
Finish(S) ==
    [S EXCEPT !.enriched_prs =
        @ (+) SetToBag({S.prs[i] : i \in S.next_pr..Len(S.prs)})]

\* The variables after a step of the loop that left the pool as S.
Install(S0) ==
    LET done == InFlight(S0) = {}
        S == IF done THEN Finish(S0) ELSE S0
    IN  /\ prs' = S.prs
        /\ next_pr' = S.next_pr
        /\ st' = S.st
        /\ handed' = S.handed
        /\ rate_limited' = S.rate_limited
        /\ enriched_prs' = S.enriched_prs
        /\ pc' = IF done THEN "done" ELSE "enrich"
        /\ result' = IF done THEN Some(Ok(S.enriched_prs)) ELSE None

\* search.rs:287-291
NewPool(found) ==
    [prs |-> found, next_pr |-> 1,
     st |-> [i \in 1..Len(found) |-> "queued"],
     handed |-> [i \in 1..Len(found) |-> 0],
     rate_limited |-> FALSE,
     enriched_prs |-> EmptyBag]

\* Mutant of StartPool: the initial batch holds one task too many.
StartPoolOneMore(found) ==
    PollNew(FillBatch(NewPool(found), MAX_CONCURRENT_ENRICHMENTS + 1))

\* search.rs:281-304 after search_prs returned Ok(found), up to the first
\* await of the loop.
StartPool(found) ==
    PollNew(FillBatch(NewPool(found), MAX_CONCURRENT_ENRICHMENTS))

------------------------------------------------------------------------
-----------------------------------------------------------------------------
(* Actions of SpecSearch: search_prs, one step per await *)

CallIdle ==
    /\ fn_in = <<>>
    /\ fn_out = <<>>

TuiIdle ==
    /\ pending_fetch = <<>>
    /\ is_loading = FALSE
    /\ needs_refresh = FALSE
    /\ force_refresh = FALSE
    /\ input_mode = "Normal"
    /\ recent_interaction = FALSE
    /\ shown_prs = 0
    /\ spawned = 0
    /\ flash = ""
    /\ should_quit = FALSE
    /\ in_flight = {}
    /\ refresh_kind = "none"
    /\ cleared = FALSE
    /\ app_snooze_state = {}
    /\ app_active_prs = {}
    /\ app_snoozed_prs = {}
    /\ fetch_snooze = {}
    /\ undo_stack = <<>>

ScoreIdle ==
    /\ score_pr = None
    /\ score_age = 0
    /\ score_config = None
    /\ score_result = None

SearchIdle ==
    /\ spc = "call"
    /\ attempt = 0
    /\ sleeps = <<>>
    /\ errors = <<>>
    /\ search_result = None

PipeIdle ==
    /\ pc = "search"
    /\ exclude_patterns = None
    /\ prs = <<>>
    /\ next_pr = 1
    /\ st = <<>>
    /\ handed = <<>>
    /\ joined = <<>>
    /\ rate_limited = FALSE
    /\ enriched_prs = EmptyBag
    /\ rl_observed = FALSE
    /\ result = None

FetchIdle ==
    /\ f_pc = "start"
    /\ queries = <<>>
    /\ global_scoring = None
    /\ snooze_state = <<>>
    /\ futures = {}
    /\ f_results = <<>>
    /\ all_prs = <<>>
    /\ any_succeeded = FALSE
    /\ unique_prs = <<>>
    /\ pr_to_query_index = <<>>
    /\ active_scored = <<>>
    /\ snoozed_scored = <<>>
    /\ f_result = None

CacheIdle ==
    /\ c_keys = <<>>
    /\ c_responses = <<>>
    /\ c_disk = <<>>
    /\ c_writer = None
    /\ c_hit = None
    /\ c_closed = None
    /\ c_ret = None

SearchInit ==
    SearchIdle /\ PipeIdle /\ ScoreIdle /\ FetchIdle /\ CacheIdle /\ CallIdle /\ TuiIdle

\* search.rs:17-55: an attempt that succeeds.
SearchOk ==
    /\ spc = "call"
    /\ attempt' = attempt + 1
    /\ \E items \in SearchResponses :
          search_result' = Some(Ok(HitsToPrs(items)))
    /\ spc' = "done"
    /\ UNCHANGED <<sleeps, errors, pipeVars, scoreVars, callVars, tuiVars, fetchVars, cacheVars>>

\* search.rs:56-83: an attempt that fails.
SearchErr ==
    /\ spc = "call"
    /\ attempt' = attempt + 1
    /\ \E error_str \in ErrorTexts :
          LET now == ImmediateError(error_str)
          IN  /\ errors' = Append(errors, error_str)
              /\ IF IsSome(now)
                 THEN /\ spc' = "done"
                      /\ search_result' = Some(Err(Unwrap(now)))
                      /\ sleeps' = sleeps
                 ELSE IF attempt' >= max_retries
                 THEN /\ spc' = "done"
                      /\ search_result' = Some(Err(RetriesExhausted(error_str)))
                      /\ sleeps' = sleeps
                 ELSE /\ spc' = "sleep"
                      /\ search_result' = None
                      /\ sleeps' = Append(sleeps, BackoffDelay(attempt'))
    /\ UNCHANGED <<pipeVars, scoreVars, callVars, tuiVars, fetchVars, cacheVars>>

\* search.rs:82: the backoff sleep ends.
SearchWake ==
    /\ spc = "sleep"
    /\ spc' = "call"
    /\ UNCHANGED <<attempt, sleeps, errors, search_result, pipeVars, scoreVars, callVars, tuiVars, fetchVars, cacheVars>>

SearchNext == SearchOk \/ SearchErr \/ SearchWake

SpecSearch == SearchInit /\ [][SearchNext]_vars

\* What search_prs can return.
SearchReturnValues ==
    {Ok(HitsToPrs(items)) : items \in SearchResponses}
    \cup {Err(AuthError), Err(RateLimitError), Err(PermissionError)}
    \cup {Err(RetriesExhausted(e)) : e \in {t \in ErrorTexts : ImmediateError(t) = None}}

-----------------------------------------------------------------------------
(* Actions of Spec: search_and_enrich_prs *)

PipeInit ==
    /\ SearchIdle
    /\ ScoreIdle
    /\ FetchIdle
    /\ CacheIdle
    /\ CallIdle
    /\ TuiIdle
    /\ pc = "search"
    /\ exclude_patterns \in ExcludeArgs
    /\ prs = <<>>
    /\ next_pr = 1
    /\ st = <<>>
    /\ handed = <<>>
    /\ joined = <<>>
    /\ rate_limited = FALSE
    /\ enriched_prs = EmptyBag
    /\ rl_observed = FALSE
    /\ result = None

\* search.rs:281-304: search_prs returns; on Ok the pool starts, on Err the
\* error is returned (the ? operator).
SearchReturns ==
    /\ pc = "search"
    /\ \E res \in SearchReturnValues :
          /\ search_result' = Some(res)
          /\ IF res.ok
             THEN /\ Varied(Len(res.val)) \/ ~FilesConfigured(exclude_patterns)
                  /\ Install(StartPool(res.val))
                  /\ joined' = [i \in 1..Len(res.val) |-> "no"]
             ELSE /\ pc' = "done"
                  /\ result' = Some(res)
                  /\ UNCHANGED <<prs, next_pr, st, handed, joined, rate_limited,
                                 enriched_prs>>
    /\ UNCHANGED <<spc, attempt, sleeps, errors, exclude_patterns, rl_observed, scoreVars, callVars, tuiVars, fetchVars, cacheVars>>

\* search.rs:209-244: try_join! of task i returns.
TaskJoin(i) ==
    /\ pc = "enrich"
    /\ st[i] = "running"
    /\ \E d \in DetailReplies(Len(prs)) \cup {Pending},
          r \in ReviewReplies(Len(prs)) \cup {Pending} :
          /\ JoinReturns(d, r)
          /\ rl_observed' = (rl_observed \/ IsRateLimitText(d.text)
                                         \/ IsRateLimitText(r.text))
          /\ joined' = [joined EXCEPT ![i] =
                            IF d.kind = "ok" /\ r.kind = "ok" THEN "ok" ELSE "err"]
          /\ LET S == [Pool EXCEPT !.prs[i] = ApplyJoin(@, d, r)]
             IN  IF WantsFiles(exclude_patterns, d, r)
                 THEN Install([S EXCEPT !.st[i] = "files"])
                 ELSE Install(Collect(S, i))
    /\ UNCHANGED <<searchVars, exclude_patterns, scoreVars, callVars, tuiVars, fetchVars, cacheVars>>

\* search.rs:219-237: the file-list request of task i returns.
TaskFiles(i) ==
    /\ pc = "enrich"
    /\ st[i] = "files"
    /\ \E f \in FileReplies :
          /\ rl_observed' = (rl_observed \/ IsRateLimitText(f.text))
          /\ Install(Collect([Pool EXCEPT !.prs[i] =
                                 ApplyFiles(@, exclude_patterns, f)], i))
    /\ UNCHANGED <<searchVars, exclude_patterns, joined, scoreVars, callVars, tuiVars, fetchVars, cacheVars>>

PipeNext ==
    \/ SearchReturns
    \/ \E i \in 1..Len(prs) : TaskJoin(i)
    \/ \E i \in 1..Len(prs) : TaskFiles(i)

Spec == PipeInit /\ [][PipeNext]_vars

-----------------------------------------------------------------------------
(* scoring/factors.rs: the effect and range DSL *)

\* A string of the DSL is its sequence of tokens (after trim, white space
\* dropped): a sign or operator, a number, the separator " per ", a duration
\* unit (v: its length in ms), or other text.
Tok(k, v) == [k |-> k, v |-> v]
Plus == Tok("+", 0)
Times == Tok("x", 0)
Minus == Tok("-", 0)
Per == Tok("per", 0)
Num(n) == Tok("num", n)
Millis == Tok("unit", 1)
Secs == Tok("unit", 1000)
Hours == Tok("unit", 3600000)
Junk == Tok("junk", 0)
Lt == Tok("<", 0)
Le == Tok("<=", 0)
Gt == Tok(">", 0)
Ge == Tok(">=", 0)

SubSeqFrom(s, i) == SubSeq(s, i, Len(s))

\* str::parse::<f64> on the numbers tried (whole numbers, signed or not).
ParseF64(s) ==
    IF Len(s) = 1 /\ s[1].k = "num" THEN Some(s[1].v)
    ELSE IF Len(s) = 2 /\ s[1].k = "+" /\ s[2].k = "num" THEN Some(s[2].v)
    ELSE IF Len(s) = 2 /\ s[1].k = "-" /\ s[2].k = "num" THEN Some(0 - s[2].v)
    ELSE None

\* str::parse::<u64>
ParseU64(s) ==
    IF Len(s) = 1 /\ s[1].k = "num" THEN Some(s[1].v)
    ELSE IF Len(s) = 2 /\ s[1].k = "+" /\ s[2].k = "num" THEN Some(s[2].v)
    ELSE None

\* humantime::parse_duration: one or more <number><unit> groups, summed; in ms.
RECURSIVE ParseDuration(_)
ParseDuration(s) ==
    IF Len(s) >= 2 /\ s[1].k = "num" /\ s[2].k = "unit"
    THEN IF Len(s) = 2 THEN Some(s[1].v * s[2].v)
         ELSE LET rest == ParseDuration(SubSeqFrom(s, 3))
              IN  IF IsSome(rest) THEN Some(s[1].v * s[2].v + Unwrap(rest))
                  ELSE None
    ELSE None

\* The position of the first " per " of s, or 0.
FindPer(s) ==
    IF \E i \in 1..Len(s) : s[i].k = "per"
    THEN CHOOSE i \in 1..Len(s) : s[i].k = "per" /\ \A j \in 1..(i - 1) : s[j].k # "per"
    ELSE 0

Effect(kind, n, unit) == [kind |-> kind, n |-> n, unit |-> unit]

\* factors.rs:61-81: Some(effect), or None for a parse error. An effect
\* without a unit carries unit 0, which is not read.
EffectParse(s) ==
    LET i == FindPer(s) IN
    IF i > 0
    THEN LET effect_part == SubSeq(s, 1, i - 1)
             duration == ParseDuration(SubSeqFrom(s, i + 1))
             val == ParseF64(SubSeqFrom(effect_part, 2))
         IN  IF ~IsSome(duration) THEN None
             ELSE IF Len(effect_part) > 0 /\ effect_part[1].k = "+"
             THEN IF IsSome(val)
                  THEN Some(Effect("AddPerUnit", Unwrap(val), Unwrap(duration)))
                  ELSE None
             ELSE IF Len(effect_part) > 0 /\ effect_part[1].k = "x"
             THEN IF IsSome(val)
                  THEN Some(Effect("MultiplyPerUnit", Unwrap(val), Unwrap(duration)))
                  ELSE None
             ELSE None
    ELSE LET val == ParseF64(SubSeqFrom(s, 2))
         IN  IF Len(s) > 0 /\ s[1].k = "+"
             THEN IF IsSome(val) THEN Some(Effect("Add", Unwrap(val), 0)) ELSE None
             ELSE IF Len(s) > 0 /\ s[1].k = "x"
             THEN IF IsSome(val) THEN Some(Effect("Multiply", Unwrap(val), 0)) ELSE None
             ELSE None

IsPerUnit(effect) == effect.kind \in {"AddPerUnit", "MultiplyPerUnit"}

RECURSIVE Pow(_, _)
Pow(n, k) == IF k = 0 THEN 1 ELSE n * Pow(n, k - 1)

\* Mutant of EffectApply: every effect is applied once per unit.
EffectApplyAlwaysPerUnit(effect, score, units) ==
    CASE effect.kind \in {"Add", "AddPerUnit"} -> score + effect.n * units
      [] effect.kind \in {"Multiply", "MultiplyPerUnit"} -> score * Pow(effect.n, units)

\* factors.rs:84-91
EffectApply(effect, score, units) ==
    CASE effect.kind = "Add" -> score + effect.n
      [] effect.kind = "Multiply" -> score * effect.n
      [] effect.kind = "AddPerUnit" -> score + effect.n * units
      [] effect.kind = "MultiplyPerUnit" -> score * Pow(effect.n, units)

Range(op, lo, hi) == [op |-> op, lo |-> lo, hi |-> hi]

\* factors.rs:15-38: Some(range), or None for a parse error.
RangeParse(s) ==
    LET rest == ParseU64(SubSeqFrom(s, 2))
        dashes == {i \in 1..Len(s) : s[i].k = "-"}
    IN  IF Len(s) > 0 /\ s[1].k \in {">=", "<=", ">", "<"}
        THEN IF IsSome(rest) THEN Some(Range(s[1].k, Unwrap(rest), 0)) ELSE None
        ELSE IF dashes # {} /\ s[1].k # "-"
        THEN IF Cardinality(dashes) = 1
             THEN LET d == CHOOSE i \in dashes : TRUE
                      low == ParseU64(SubSeq(s, 1, d - 1))
                      high == ParseU64(SubSeqFrom(s, d + 1))
                  IN  IF IsSome(low) /\ IsSome(high)
                      THEN Some(Range("between", Unwrap(low), Unwrap(high)))
                      ELSE None
             ELSE None
        ELSE LET v == ParseU64(s)
             IN  IF IsSome(v) THEN Some(Range("=", Unwrap(v), 0)) ELSE None

\* factors.rs:40-49
RangeMatches(range, value) ==
    CASE range.op = "<" -> value < range.lo
      [] range.op = "<=" -> value <= range.lo
      [] range.op = ">" -> value > range.lo
      [] range.op = ">=" -> value >= range.lo
      [] range.op = "=" -> value = range.lo
      [] range.op = "between" -> value >= range.lo /\ value <= range.hi

-----------------------------------------------------------------------------
(* scoring/engine.rs: calculate_score *)

\* github/types.rs:25-27
Size(pr) == pr.additions + pr.deletions

\* scoring/config.rs:42-71
ScoringConfig(base_score, age, approvals, size, labels, previously_reviewed) ==
    [base_score |-> base_score, age |-> age, approvals |-> approvals,
     size |-> size, labels |-> labels,
     previously_reviewed |-> previously_reviewed]
SizeConfig(exclude, buckets) == [exclude |-> exclude, buckets |-> buckets]
SizeBucket(range, effect) == [range |-> range, effect |-> effect]
LabelEffect(name, effect) == [name |-> name, effect |-> effect]

FactorContribution(label, before, after) ==
    [label |-> label, before |-> before, after |-> after]

\* engine.rs:162-174; age in seconds, the unit in ms (Duration::as_secs
\* drops the part below a second).
calculate_units(effect, age) ==
    IF IsPerUnit(effect)
    THEN LET age_secs == IF age > 0 THEN age ELSE 0
             unit_secs == effect.unit \div 1000
         IN  IF unit_secs > 0 THEN age_secs \div unit_secs ELSE 0
    ELSE 1

\* engine.rs:62-72: the approvals string as it is handed to Effect::parse.
ApprovalsParseable(approvals_str) ==
    LET i == FindPer(approvals_str) IN
    IF i > 0
    THEN LET per_part == SubSeqFrom(approvals_str, i + 1)
         IN  IF \A j \in 1..Len(per_part) : per_part[j].k = "num"
             THEN SubSeq(approvals_str, 1, i - 1) \o <<Per, Num(1), Secs>>
             ELSE approvals_str
    ELSE approvals_str

\* A running score with the breakdown entries so far.
Run(score, factors) == [score |-> score, factors |-> factors]

\* One fired factor: the effect is applied and an entry is appended.
Fire(run, label, effect, units) ==
    LET after == EffectApply(effect, run.score, units)
    IN  Run(after, Append(run.factors, FactorContribution(label, run.score, after)))

\* engine.rs:32-55
AgeStep(run, age, config) ==
    IF IsSome(config.age) /\ IsSome(EffectParse(Unwrap(config.age)))
    THEN LET effect == Unwrap(EffectParse(Unwrap(config.age)))
         IN  Fire(run, <<"Age">>, effect, calculate_units(effect, age))
    ELSE run

\* engine.rs:57-87
ApprovalsStep(run, pr, config) ==
    IF IsSome(config.approvals)
       /\ IsSome(EffectParse(ApprovalsParseable(Unwrap(config.approvals))))
    THEN Fire(run, <<"Approvals">>,
              Unwrap(EffectParse(ApprovalsParseable(Unwrap(config.approvals)))),
              pr.approvals)
    ELSE run

\* Mutant of MatchedBucket: the last matching bucket is applied.
MatchedBucketLast(value, buckets) ==
    LET hits == {i \in 1..Len(buckets) :
                    /\ IsSome(RangeParse(buckets[i].range))
                    /\ RangeMatches(Unwrap(RangeParse(buckets[i].range)), value)
                    /\ IsSome(EffectParse(buckets[i].effect))}
    IN  IF hits = {} THEN 0 ELSE CHOOSE i \in hits : \A j \in hits : i >= j

\* engine.rs:195-215: the position of the bucket whose effect is applied, or 0.
MatchedBucket(value, buckets) ==
    LET hits == {i \in 1..Len(buckets) :
                    /\ IsSome(RangeParse(buckets[i].range))
                    /\ RangeMatches(Unwrap(RangeParse(buckets[i].range)), value)
                    /\ IsSome(EffectParse(buckets[i].effect))}
    IN  IF hits = {} THEN 0 ELSE CHOOSE i \in hits : \A j \in hits : i <= j

\* engine.rs:89-108
SizeStep(run, pr, config) ==
    IF IsSome(config.size) /\ IsSome(Unwrap(config.size).buckets)
    THEN LET buckets == Unwrap(Unwrap(config.size).buckets)
             b == MatchedBucket(Size(pr), buckets)
         IN  IF b > 0
             THEN Fire(run, <<"Size">>, Unwrap(EffectParse(buckets[b].effect)), 1)
             ELSE run
    ELSE run

\* str::eq_ignore_ascii_case on the label names tried: a name is a pair of
\* its lower-case spelling and whether it is written in upper case.
EqIgnoreCase(a, b) == a[1] = b[1]

\* Mutant of LabelSteps: the label rules are applied last to first.
RECURSIVE LabelStepsLastFirst(_, _, _)
LabelStepsLastFirst(run, pr, label_configs) ==
    IF label_configs = <<>> THEN run
    ELSE LET label_config == Head(label_configs)
             rest == LabelStepsLastFirst(run, pr, Tail(label_configs))
         IN  IF /\ \E l \in pr.labels : EqIgnoreCase(l, label_config.name)
                /\ IsSome(EffectParse(label_config.effect))
             THEN Fire(rest, <<"Label", label_config.name>>,
                       Unwrap(EffectParse(label_config.effect)), 1)
             ELSE rest

\* engine.rs:110-133
RECURSIVE LabelSteps(_, _, _)
LabelSteps(run, pr, label_configs) ==
    IF label_configs = <<>> THEN run
    ELSE LET label_config == Head(label_configs)
             next == IF /\ \E l \in pr.labels : EqIgnoreCase(l, label_config.name)
                        /\ IsSome(EffectParse(label_config.effect))
                     THEN Fire(run, <<"Label", label_config.name>>,
                               Unwrap(EffectParse(label_config.effect)), 1)
                     ELSE run
         IN  LabelSteps(next, pr, Tail(label_configs))

\* Mutant of ReviewedStep: the factor fires whether or not the viewer has
\* reviewed the item.
ReviewedStepAlways(run, pr, config) ==
    IF /\ IsSome(config.previously_reviewed)
       /\ IsSome(EffectParse(Unwrap(config.previously_reviewed)))
    THEN Fire(run, <<"Previously Reviewed">>,
              Unwrap(EffectParse(Unwrap(config.previously_reviewed))), 1)
    ELSE run

\* engine.rs:135-149
ReviewedStep(run, pr, config) ==
    IF /\ IsSome(config.previously_reviewed)
       /\ pr.user_has_reviewed
       /\ IsSome(EffectParse(Unwrap(config.previously_reviewed)))
    THEN Fire(run, <<"Previously Reviewed">>,
              Unwrap(EffectParse(Unwrap(config.previously_reviewed))), 1)
    ELSE run

\* Mutant of FloorAtZero: the floor is missing.
FloorMissing(score) == score

\* engine.rs:151-153: score.max(0.0)
FloorAtZero(score) == IF score > 0 THEN score ELSE 0

\* engine.rs:26-160; age is Utc::now() - pr.created_at, in seconds.
calculate_score(pr, age, config) ==
    LET base_score == IF IsSome(config.base_score) THEN Unwrap(config.base_score)
                      ELSE 100
        r1 == AgeStep(Run(base_score, <<>>), age, config)
        r2 == ApprovalsStep(r1, pr, config)
        r3 == SizeStep(r2, pr, config)
        r4 == IF IsSome(config.labels)
              THEN LabelSteps(r3, pr, Unwrap(config.labels)) ELSE r3
        r5 == ReviewedStep(r4, pr, config)
    IN  [score |-> FloorAtZero(r5.score),
         incomplete |-> FALSE,
         breakdown |-> [base_score |-> base_score, factors |-> r5.factors]]

-----------------------------------------------------------------------------
(* Actions of SpecScore: calculate_score on drawn inputs *)

\* "+1 per 1h", "+-20 per 1h", "x2 per 1h", "+5", and a string that is no effect
AgeStrings ==
    {<<Plus, Num(1), Per, Num(1), Hours>>,
     <<Plus, Minus, Num(20), Per, Num(1), Hours>>,
     <<Times, Num(2), Per, Num(1), Hours>>,
     <<Junk>>}
\* "+10 per 1", "x-1"
ApprovalsStrings == {<<Plus, Num(10), Per, Num(1)>>, <<Times, Minus, Num(1)>>}
\* [("<100", "x2"), ("<200", "x3")] and [("<100", "junk"), ("<200", "x3")]
BucketLists ==
    {<<SizeBucket(<<Lt, Num(100)>>, <<Times, Num(2)>>),
       SizeBucket(<<Lt, Num(200)>>, <<Times, Num(3)>>)>>,
     <<SizeBucket(<<Lt, Num(100)>>, <<Junk>>),
       SizeBucket(<<Lt, Num(200)>>, <<Times, Num(3)>>)>>}
SizeConfigs ==
    {SizeConfig(None, Some(b)) : b \in BucketLists}
    \cup {SizeConfig(Some(<<"*.lock">>), None)}
Urgent == <<"urgent", FALSE>>
UrgentUpper == <<"urgent", TRUE>>
Wip == <<"wip", FALSE>>
\* [("urgent", "+10"), ("wip", "x-1")]
LabelLists ==
    {<<LabelEffect(Urgent, <<Plus, Num(10)>>),
       LabelEffect(Wip, <<Times, Minus, Num(1)>>)>>}
\* "x-2"
ReviewedStrings == {<<Times, Minus, Num(2)>>}

Opt(S) == {None} \cup {Some(v) : v \in S}

ScoringConfigs ==
    {ScoringConfig(b, a, ap, sz, l, r) :
        b \in Opt({100, 10, 0 - 5}), a \in Opt(AgeStrings),
        ap \in Opt(ApprovalsStrings), sz \in Opt(SizeConfigs),
        l \in Opt(LabelLists), r \in Opt(ReviewedStrings)}

\* An item as the scoring engine reads it.
ScoredPr(url, created_at, labels, size, approvals, reviewed, filtered) ==
    [number |-> 1, repo |-> <<"owner", "repo">>, url |-> url,
     created_at |-> created_at, labels |-> labels,
     additions |-> size[1], deletions |-> size[2], approvals |-> approvals,
     user_has_reviewed |-> reviewed, filtered_size |-> filtered]

ScoredPrs ==
    {ScoredPr("u1", 0, l, sz, ap, rv, f) :
        l \in {{}, {UrgentUpper}, {Urgent, Wip}},
        sz \in {<<30, 20>>, <<100, 50>>, <<150, 100>>},
        ap \in {0, 2}, rv \in BOOLEAN, f \in {None, Some(50)}}

\* Ages in seconds: created an hour in the future, and three hours ago.
Ages == {0 - 3600, 10800}

ScoreInit ==
    /\ SearchIdle
    /\ PipeIdle
    /\ FetchIdle
    /\ CacheIdle
    /\ CallIdle
    /\ TuiIdle
    /\ score_pr \in {Some(p) : p \in ScoredPrs}
    /\ score_age \in Ages
    /\ score_config \in {Some(c) : c \in ScoringConfigs}
    /\ score_result = None

Score ==
    /\ score_result = None
    /\ score_result' = Some(calculate_score(Unwrap(score_pr), score_age,
                                             Unwrap(score_config)))
    /\ UNCHANGED <<score_pr, score_age, score_config, searchVars, pipeVars,
                   fetchVars, cacheVars, callVars, tuiVars>>

SpecScore == ScoreInit /\ [][Score]_vars

-----------------------------------------------------------------------------
(* scoring/config.rs: merge_scoring_configs *)

\* the largest number of configured queries
MaxQueries == 2

\* Option::or / or_else
OrElse(a, b) == IF IsSome(a) THEN a ELSE b

\* Mutant of merge_size_configs: a query's size section replaces the
\* global one as a whole.
merge_size_configs_Whole(global, query) ==
    IF IsSome(query) THEN query ELSE global

\* config.rs:133-145
merge_size_configs(global, query) ==
    IF IsSome(query) /\ IsSome(global)
    THEN Some(SizeConfig(OrElse(Unwrap(query).exclude, Unwrap(global).exclude),
                         OrElse(Unwrap(query).buckets, Unwrap(global).buckets)))
    ELSE IF IsSome(query) THEN query
    ELSE global

\* The sequences that list every element of S once.
RECURSIVE Perms(_)
Perms(S) ==
    IF S = {} THEN {<<>>}
    ELSE UNION {{<<x>> \o p : p \in Perms(S \ {x})} : x \in S}

\* config.rs:159-167: the values left in the map after the inserts, global
\* labels first: for each lower-cased name, the last label inserted under it.
MergedLabels(g, q) ==
    LET all == g \o q
    IN  {all[i] : i \in {k \in 1..Len(all) :
                            \A j \in (k + 1)..Len(all) : all[j].name[1] # all[k].name[1]}}

\* Mutant of merge_label_configs: the map is built whatever is absent.
merge_label_configs_AlwaysMap(global, query) ==
    IF query = None /\ global = None THEN {None}
    ELSE {Some(p) : p \in Perms(MergedLabels(IF global = None THEN <<>> ELSE Unwrap(global),
                                              IF query = None THEN <<>> ELSE Unwrap(query)))}

\* config.rs:150-170. HashMap::into_values yields the values in an order
\* the program does not fix, so the result is one of a set of vectors.
merge_label_configs(global, query) ==
    IF query = None THEN {global}
    ELSE IF global = None THEN {query}
    ELSE {Some(p) : p \in Perms(MergedLabels(Unwrap(global), Unwrap(query)))}

\* config.rs:106-125: the set of configs a call can return.
merge_scoring_configs(global, query) ==
    IF query = None THEN {global}
    ELSE LET q == Unwrap(query) IN
         {ScoringConfig(OrElse(q.base_score, global.base_score),
                        OrElse(q.age, global.age),
                        OrElse(q.approvals, global.approvals),
                        merge_size_configs(global.size, q.size),
                        labels,
                        OrElse(q.previously_reviewed, global.previously_reviewed)) :
             labels \in merge_label_configs(global.labels, q.labels)}

-----------------------------------------------------------------------------
(* snooze *)

SnoozeEntry(snooze_until) == [snooze_until |-> snooze_until]

\* snooze/types.rs:70-79; now is the value of Utc::now() at the call.
is_snoozed(state, pr_url, now) ==
    IF pr_url \in DOMAIN state
    THEN IF state[pr_url].snooze_until = None THEN TRUE
         ELSE now < Unwrap(state[pr_url].snooze_until)
    ELSE FALSE

\* snooze/filter.rs:5-9
filter_active_prs(list, state, now) ==
    LET Keep(pr) == ~is_snoozed(state, pr.url, now) IN SelectSeq(list, Keep)

\* snooze/filter.rs:12-16
filter_snoozed_prs(list, state, now) ==
    LET Keep(pr) == is_snoozed(state, pr.url, now) IN SelectSeq(list, Keep)

-----------------------------------------------------------------------------
(* fetch_and_score_prs *)

QueryConfig(name, query, scoring) ==
    [name |-> name, query |-> query, scoring |-> scoring]

\* fetch.rs:115
AllQueriesFailed == [type |-> "anyhow", msg |-> "All queries failed", quoted |-> {}]

\* Mutant of IsAuthError: no error is taken for an AuthError.
IsAuthErrorNever(e) == FALSE

\* fetch.rs:99: e.downcast_ref::<AuthError>().is_some()
IsAuthError(e) == e.type = "AuthError"

\* HashMap::insert
MapInsert(f, k, v) == [x \in DOMAIN f \cup {k} |-> IF x = k THEN v ELSE f[x]]

\* The locals of the deduplication.
Dedup(seen_urls, index, unique) ==
    [seen_urls |-> seen_urls, pr_to_query_index |-> index, unique_prs |-> unique]

\* Mutant of DedupFrom: every pair is kept, seen or not.
RECURSIVE DedupKeepAll(_, _)
DedupKeepAll(all, d) ==
    IF all = <<>> THEN d
    ELSE LET pr == Head(all)[1]
             query_idx == Head(all)[2]
         IN  DedupKeepAll(Tail(all),
                          Dedup(d.seen_urls \cup {pr.url},
                                MapInsert(d.pr_to_query_index, pr.url, query_idx),
                                Append(d.unique_prs, pr)))

\* fetch.rs:122-132: the filter_map over all_prs, from the locals d on.
RECURSIVE DedupFrom(_, _)
DedupFrom(all, d) ==
    IF all = <<>> THEN d
    ELSE LET pr == Head(all)[1]
             query_idx == Head(all)[2]
         IN  IF pr.url \notin d.seen_urls
             THEN DedupFrom(Tail(all),
                            Dedup(d.seen_urls \cup {pr.url},
                                  MapInsert(d.pr_to_query_index, pr.url, query_idx),
                                  Append(d.unique_prs, pr)))
             ELSE DedupFrom(Tail(all), d)

\* The values Utc::now() takes during a fetch, in seconds.
Clock == {10800, 14400}

\* Mutant of QueryIdxOf: every item is scored as an item of the first query.
QueryIdxOfFirst(index, url) == 1

\* fetch.rs:155 and 168: pr_to_query_index.get(&pr.url).copied().unwrap_or(0),
\* with queries counted from 1.
QueryIdxOf(index, url) == IF url \in DOMAIN index THEN index[url] ELSE 1

\* fetch.rs:151-161 and 164-174: the (pr, result) vectors the map can
\* produce when the clock reads at least tmin, each with the last reading.
\* Every item is scored at its own reading of the clock and with its own
\* call of merge_scoring_configs.
RECURSIVE ScoredLists(_, _, _)
ScoredLists(list, index, tmin) ==
    IF list = <<>> THEN {[scored |-> <<>>, now |-> tmin]}
    ELSE LET pr == Head(list)
             query_idx == QueryIdxOf(index, pr.url)
         IN  UNION {UNION {{[scored |-> <<<<pr, calculate_score(pr, t - pr.created_at, scoring)>>>>
                                           \o rest.scored,
                             now |-> rest.now] :
                               rest \in ScoredLists(Tail(list), index, t)} :
                           scoring \in merge_scoring_configs(global_scoring,
                                                             queries[query_idx].scoring)} :
                    t \in {x \in Clock : x >= tmin}}

\* Mutant of SortLess: the creation time does not break ties.
SortLessScoreOnly(a, b) == b[2].score < a[2].score

\* fetch.rs:177-188: sort_fn(a, b) = Less
SortLess(a, b) ==
    \/ b[2].score < a[2].score
    \/ b[2].score = a[2].score /\ a[1].created_at < b[1].created_at

\* Stable insertion of x into the sorted vector s.
SortInsert(s, x) ==
    LET after == {i \in 1..Len(s) : SortLess(x, s[i])}
        k == IF after = {} THEN Len(s) + 1
             ELSE CHOOSE i \in after : \A j \in after : i <= j
    IN  SubSeq(s, 1, k - 1) \o <<x>> \o SubSeq(s, k, Len(s))

\* fetch.rs:190-191: Vec::sort_by (a stable sort)
RECURSIVE SortBy(_)
SortBy(s) ==
    IF s = <<>> THEN <<>>
    ELSE SortInsert(SortBy(SubSeq(s, 1, Len(s) - 1)), s[Len(s)])

\* Mutant of AllFailed: the fetch goes on with no successful query.
AllFailedNever(any) == FALSE

\* fetch.rs:114
AllFailed(any) == ~any /\ queries # <<>>

\* fetch.rs:113-191: from the end of the collecting loop to the rate limit
\* request, with all_prs = all and any_succeeded = any.
AfterLoop(all, any) ==
    IF AllFailed(any)
    THEN /\ f_result' = Some(Err(AllQueriesFailed))
         /\ f_pc' = "done"
         /\ UNCHANGED <<unique_prs, pr_to_query_index, active_scored, snoozed_scored>>
    ELSE LET d == DedupFrom(all, Dedup({}, <<>>, <<>>)) IN
         /\ unique_prs' = d.unique_prs
         /\ pr_to_query_index' = d.pr_to_query_index
         /\ \E t1 \in Clock, t2 \in Clock :
               /\ t1 <= t2
               /\ LET active_prs == filter_active_prs(d.unique_prs, snooze_state, t1)
                      snoozed_prs == filter_snoozed_prs(d.unique_prs, snooze_state, t2)
                  IN  \E a \in ScoredLists(active_prs, d.pr_to_query_index, t2) :
                      \E s \in ScoredLists(snoozed_prs, d.pr_to_query_index, a.now) :
                          /\ active_scored' = SortBy(a.scored)
                          /\ snoozed_scored' = SortBy(s.scored)
         /\ f_pc' = "ratelimit"
         /\ f_result' = f_result

-----------------------------------------------------------------------------
(* Actions of SpecFetch: fetch_and_score_prs *)

\* "+1 per 1h", "+10 per 1", exclude ["*.lock"], [("urgent", "+10")]; and
\* the empty config
GlobalScorings ==
    {ScoringConfig(Some(100), Some(<<Plus, Num(1), Per, Num(1), Hours>>),
                   Some(<<Plus, Num(10), Per, Num(1)>>),
                   Some(SizeConfig(Some(<<"*.lock">>), None)),
                   Some(<<LabelEffect(Urgent, <<Plus, Num(10)>>)>>), None),
     ScoringConfig(None, None, None, None, None, None)}

\* base_score 10, exclude ["*"], [("wip", "x2")], previously_reviewed "x-2"
PerQueryScoring ==
    ScoringConfig(Some(10), None, None, Some(SizeConfig(Some(<<"*">>), None)),
                  Some(<<LabelEffect(Wip, <<Times, Num(2)>>)>>),
                  Some(<<Times, Minus, Num(2)>>))

\* The i-th configured query; the even ones carry a scoring section.
QueryAt(i) ==
    QueryConfig(None, <<"query", i>>,
                IF i % 2 = 0 THEN Some(PerQueryScoring) ELSE None)

\* Nothing snoozed; u1 snoozed for good; u1 snoozed until 14400.
SnoozeStates ==
    {<<>>,
     [u \in {"u1"} |-> SnoozeEntry(None)],
     [u \in {"u1"} |-> SnoozeEntry(Some(14400))]}

\* The changed files of an item: one source file and Cargo.lock.
FetchFiles(pr) ==
    <<File(<<"src", "main.rs">>, pr.additions - 26, pr.deletions - 19),
      File(<<"Cargo.lock">>, 26, 19)>>

\* search.rs:217-233: the filtered_size enrich_pr leaves on an item whose
\* file list it could fetch.
FilteredSize(pr, exclude) ==
    IF FilesConfigured(exclude)
    THEN apply_size_exclusions(FetchFiles(pr), Unwrap(exclude))
    ELSE None

\* The items a query run with the given exclude patterns finds: the same
\* pull request twice, as two enrichments left it (the second could not fetch
\* the file list), and a second pull request.
FetchItems(exclude) ==
    LET u1 == ScoredPr("u1", 0, {Urgent, Wip}, <<30, 20>>, 0, FALSE, None)
        u2 == ScoredPr("u2", 3600, {}, <<100, 50>>, 0, TRUE, None)
    IN  {[u1 EXCEPT !.filtered_size = FilteredSize(u1, exclude)],
         [u1 EXCEPT !.approvals = 2],
         [u2 EXCEPT !.filtered_size = FilteredSize(u2, exclude)]}

\* What search_and_enrich_prs can return to a query: a vector of items with
\* distinct urls, or the error of search_prs.
QueryReturns(exclude) ==
    {Ok(<<>>)} \cup {Ok(<<p>>) : p \in FetchItems(exclude)}
    \cup {Ok(<<pq[1], pq[2]>>) :
             pq \in {x \in FetchItems(exclude) \X FetchItems(exclude) :
                         x[1].url # x[2].url}}
    \cup {Err(AuthError), Err(RetriesExhausted({"timeout"}))}

\* fetch.rs:68-69: the exclude patterns handed to the query's future. The
\* size section does not depend on the order of the merged labels.
ExcludeFor(query_index) ==
    LET merged_scoring == CHOOSE c \in merge_scoring_configs(
                                          global_scoring, queries[query_index].scoring) : TRUE
    IN  IF merged_scoring.size = None THEN None
        ELSE Unwrap(merged_scoring.size).exclude

FetchInit ==
    /\ SearchIdle
    /\ PipeIdle
    /\ ScoreIdle
    /\ CacheIdle
    /\ CallIdle
    /\ TuiIdle
    /\ f_pc = "start"
    /\ queries \in {[i \in 1..n |-> QueryAt(i)] : n \in 0..MaxQueries}
    /\ global_scoring \in GlobalScorings
    /\ snooze_state \in SnoozeStates
    /\ futures = {}
    /\ f_results = <<>>
    /\ all_prs = <<>>
    /\ any_succeeded = FALSE
    /\ unique_prs = <<>>
    /\ pr_to_query_index = <<>>
    /\ active_scored = <<>>
    /\ snoozed_scored = <<>>
    /\ f_result = None

\* fetch.rs:57-81: one future per query is pushed; query_index counts from 1
\* here. Without queries the loop ends at once.
FetchStart ==
    /\ f_pc = "start"
    /\ f_results' = [i \in 1..Len(queries) |-> None]
    /\ futures' = 1..Len(queries)
    /\ IF queries = <<>>
       THEN AfterLoop(all_prs, any_succeeded)
       ELSE /\ f_pc' = "collect"
            /\ UNCHANGED <<unique_prs, pr_to_query_index, active_scored,
                           snoozed_scored, f_result>>
    /\ UNCHANGED <<queries, global_scoring, snooze_state, all_prs, any_succeeded,
                   searchVars, pipeVars, scoreVars, callVars, tuiVars, cacheVars>>

\* fetch.rs:83-111: futures.next() yields the result of query_index; when
\* it was the last future the code runs on to the rate limit request.
QueryDone(query_index) ==
    /\ f_pc = "collect"
    /\ query_index \in futures
    /\ \E r \in QueryReturns(ExcludeFor(query_index)) :
          /\ f_results' = [f_results EXCEPT ![query_index] = Some(r)]
          /\ IF ~r.ok /\ IsAuthError(r.val)
             THEN /\ f_result' = Some(Err(r.val))
                  /\ f_pc' = "done"
                  /\ futures' = {}
                  /\ UNCHANGED <<all_prs, any_succeeded, unique_prs,
                                 pr_to_query_index, active_scored, snoozed_scored>>
             ELSE LET all == IF r.ok
                             THEN all_prs \o [k \in 1..Len(r.val) |-> <<r.val[k], query_index>>]
                             ELSE all_prs
                      any == any_succeeded \/ r.ok
                  IN  /\ all_prs' = all
                      /\ any_succeeded' = any
                      /\ futures' = futures \ {query_index}
                      /\ IF futures' = {}
                         THEN AfterLoop(all, any)
                         ELSE UNCHANGED <<f_pc, unique_prs, pr_to_query_index,
                                          active_scored, snoozed_scored, f_result>>
    /\ UNCHANGED <<queries, global_scoring, snooze_state,
                   searchVars, pipeVars, scoreVars, callVars, tuiVars, cacheVars>>

\* fetch.rs:194-199
RateLimitReply ==
    /\ f_pc = "ratelimit"
    /\ \E rate_limit_remaining \in {None, Some(4999)} :
          f_result' = Some(Ok([active |-> active_scored, snoozed |-> snoozed_scored,
                               rate_limit_remaining |-> rate_limit_remaining]))
    /\ f_pc' = "done"
    /\ UNCHANGED <<queries, global_scoring, snooze_state, futures, f_results,
                   all_prs, any_succeeded, unique_prs, pr_to_query_index,
                   active_scored, snoozed_scored,
                   searchVars, pipeVars, scoreVars, callVars, tuiVars, cacheVars>>

FetchNext ==
    \/ FetchStart
    \/ \E query_index \in 1..Len(queries) : QueryDone(query_index)
    \/ RateLimitReply

SpecFetch == FetchInit /\ [][FetchNext]_vars

-----------------------------------------------------------------------------
(* github/cache.rs: DiskCache *)

\* the longest body a writer is given, in tokens
MaxBody == 2

\* The request urls.
Uris == {"u1", "u2"}

ETag(v) == [kind |-> "ETag", v |-> v]
LastModified(v) == [kind |-> "LastModified", v |-> v]
CacheKeys == {ETag("e1"), LastModified("m1")}

\* A body is a sequence of these bytes.
BodyTokens == {"[", "]"}

\* serde_json::from_slice::<Value>(body).is_ok(): over these bytes the JSON
\* documents are "[]", "[[]]", ... (more elements would need commas).
RECURSIVE IsJson(_)
IsJson(body) ==
    /\ Len(body) >= 2
    /\ body[1] = "["
    /\ body[Len(body)] = "]"
    /\ (Len(body) = 2 \/ IsJson(SubSeq(body, 2, Len(body) - 1)))

\* Mutant of RejectsBody: every body is cached.
RejectsBodyNever(body) == FALSE

\* cache.rs:232
RejectsBody(body) == ~IsJson(body)

CachedResponse(body) == [body |-> body]

\* cache.rs:84-103
from_parts(key, response) ==
    [etag |-> IF key.kind = "ETag" THEN Some(key.v) ELSE None,
     last_modified |-> IF key.kind = "LastModified" THEN Some(key.v) ELSE None,
     body |-> response.body]

\* cache.rs:106-129: None stands for the error.
to_parts(entry) ==
    IF IsSome(entry.etag)
    THEN Some([key |-> ETag(Unwrap(entry.etag)), response |-> CachedResponse(entry.body)])
    ELSE IF IsSome(entry.last_modified)
    THEN Some([key |-> LastModified(Unwrap(entry.last_modified)),
               response |-> CachedResponse(entry.body)])
    ELSE None

\* cache.rs:154-160: what load_from_disk reads for the uri, if it can.
ReadDisk(disk, uri_key) ==
    IF uri_key \in DOMAIN disk THEN to_parts(disk[uri_key]) ELSE None

\* cache.rs:172-185: the value try_hit returns for the uri in this state.
try_hit(keys, disk, uri) ==
    IF uri \in DOMAIN keys THEN Some(keys[uri])
    ELSE IF IsSome(ReadDisk(disk, uri)) THEN Some(Unwrap(ReadDisk(disk, uri)).key)
    ELSE None

\* cache.rs:187-190
load(responses, uri) ==
    IF uri \in DOMAIN responses THEN Some(responses[uri]) ELSE None

DiskCacheWriter(uri_key, key, body, phase) ==
    [uri_key |-> uri_key, key |-> key, response |-> CachedResponse(body),
     phase |-> phase]

\* What is recorded of a try_hit that has returned.
TryHitReturn(uri, val) == [uri |-> uri, val |-> val]

\* What is recorded of a writer whose drop has finished.
Closed(writer, accepted) ==
    [uri_key |-> writer.uri_key, body |-> writer.response.body,
     accepted |-> accepted]

-----------------------------------------------------------------------------
(* Actions of SpecCache: one DiskCache, one writer at a time, and try_hit *)
(* calls that run beside it                                              *)

CacheInit ==
    /\ SearchIdle
    /\ PipeIdle
    /\ ScoreIdle
    /\ FetchIdle
    /\ CacheIdle
    /\ CallIdle
    /\ TuiIdle

\* Mutant of Writer: opening a writer drops the entry the url has in memory.
WriterInvalidates(uri, key) ==
    /\ c_writer = None
    /\ c_writer' = Some(DiskCacheWriter(uri, key, <<>>, "open"))
    /\ c_closed' = None
    /\ c_keys' = [u \in DOMAIN c_keys \ {uri} |-> c_keys[u]]
    /\ c_responses' = [u \in DOMAIN c_responses \ {uri} |-> c_responses[u]]
    /\ UNCHANGED <<c_disk, c_hit, c_ret,
                   searchVars, pipeVars, scoreVars, callVars, tuiVars, fetchVars>>

\* cache.rs:192-203
Writer(uri, key) ==
    /\ c_writer = None
    /\ c_writer' = Some(DiskCacheWriter(uri, key, <<>>, "open"))
    /\ c_closed' = None
    /\ UNCHANGED <<c_keys, c_responses, c_disk, c_hit, c_ret,
                   searchVars, pipeVars, scoreVars, callVars, tuiVars, fetchVars>>

\* cache.rs:216-218
WriteBody(data) ==
    /\ IsSome(c_writer)
    /\ Unwrap(c_writer).phase = "open"
    /\ Len(Unwrap(c_writer).response.body) + Len(data) <= MaxBody
    /\ c_writer' = Some([Unwrap(c_writer) EXCEPT !.response.body = @ \o data])
    /\ c_closed' = None
    /\ UNCHANGED <<c_keys, c_responses, c_disk, c_hit, c_ret,
                   searchVars, pipeVars, scoreVars, callVars, tuiVars, fetchVars>>

\* cache.rs:222-242: the drop up to the end of the locked section.
Drop ==
    /\ IsSome(c_writer)
    /\ Unwrap(c_writer).phase = "open"
    /\ LET w == Unwrap(c_writer) IN
       IF RejectsBody(w.response.body)
       THEN /\ c_writer' = None
            /\ c_closed' = Some(Closed(w, FALSE))
            /\ UNCHANGED <<c_keys, c_responses>>
       ELSE /\ c_keys' = MapInsert(c_keys, w.uri_key, w.key)
            /\ c_responses' = MapInsert(c_responses, w.uri_key, w.response)
            /\ c_writer' = Some([w EXCEPT !.phase = "disk"])
            /\ c_closed' = None
    /\ UNCHANGED <<c_disk, c_hit, c_ret, searchVars, pipeVars, scoreVars, callVars, tuiVars, fetchVars>>

\* cache.rs:244-249: the write to disk, whose failure is ignored.
DropWrite ==
    /\ IsSome(c_writer)
    /\ Unwrap(c_writer).phase = "disk"
    /\ LET w == Unwrap(c_writer) IN
       /\ \E written \in BOOLEAN :
             c_disk' = IF written
                       THEN MapInsert(c_disk, w.uri_key, from_parts(w.key, w.response))
                       ELSE c_disk
       /\ c_closed' = Some(Closed(w, TRUE))
    /\ c_writer' = None
    /\ UNCHANGED <<c_keys, c_responses, c_hit, c_ret,
                   searchVars, pipeVars, scoreVars, callVars, tuiVars, fetchVars>>

\* cache.rs:172-185 and 152-160: try_hit up to the read from disk. On a hit
\* in memory, and when nothing can be read, it returns; otherwise the entry
\* read waits for the lock.
TryHit(uri) ==
    /\ c_hit = None
    /\ c_hit' = IF uri \notin DOMAIN c_keys /\ IsSome(ReadDisk(c_disk, uri))
                THEN Some([uri_key |-> uri,
                           key |-> Unwrap(ReadDisk(c_disk, uri)).key,
                           response |-> Unwrap(ReadDisk(c_disk, uri)).response])
                ELSE None
    /\ c_ret' = IF uri \in DOMAIN c_keys THEN Some(TryHitReturn(uri, Some(c_keys[uri])))
                ELSE IF IsSome(ReadDisk(c_disk, uri)) THEN c_ret
                ELSE Some(TryHitReturn(uri, None))
    /\ c_closed' = None
    /\ UNCHANGED <<c_keys, c_responses, c_disk, c_writer,
                   searchVars, pipeVars, scoreVars, callVars, tuiVars, fetchVars>>

\* Mutant of Hydrate: load_from_disk returns the key it read without
\* putting the entry into memory.
HydrateNoInsert ==
    /\ IsSome(c_hit)
    /\ c_hit' = None
    /\ c_ret' = Some(TryHitReturn(Unwrap(c_hit).uri_key, Some(Unwrap(c_hit).key)))
    /\ c_closed' = None
    /\ UNCHANGED <<c_keys, c_responses, c_disk, c_writer,
                   searchVars, pipeVars, scoreVars, callVars, tuiVars, fetchVars>>

\* cache.rs:162-167: load_from_disk puts the entry it read into memory.
Hydrate ==
    /\ IsSome(c_hit)
    /\ c_keys' = MapInsert(c_keys, Unwrap(c_hit).uri_key, Unwrap(c_hit).key)
    /\ c_responses' = MapInsert(c_responses, Unwrap(c_hit).uri_key, Unwrap(c_hit).response)
    /\ c_hit' = None
    /\ c_ret' = Some(TryHitReturn(Unwrap(c_hit).uri_key, Some(Unwrap(c_hit).key)))
    /\ c_closed' = None
    /\ UNCHANGED <<c_disk, c_writer, searchVars, pipeVars, scoreVars, callVars, tuiVars, fetchVars>>

\* Mutant of ClearMemory: the disk store is emptied too.
ClearMemoryAndDisk ==
    /\ c_keys' = <<>>
    /\ c_responses' = <<>>
    /\ c_disk' = <<>>
    /\ c_closed' = None
    /\ c_ret' = None
    /\ UNCHANGED <<c_writer, c_hit, searchVars, pipeVars, scoreVars, callVars, tuiVars, fetchVars>>

\* cache.rs:145-149
ClearMemory ==
    /\ c_keys' = <<>>
    /\ c_responses' = <<>>
    /\ c_closed' = None
    /\ c_ret' = None
    /\ UNCHANGED <<c_disk, c_writer, c_hit,
                   searchVars, pipeVars, scoreVars, callVars, tuiVars, fetchVars>>

CacheNext ==
    \/ \E uri \in Uris, key \in CacheKeys : Writer(uri, key)
    \/ \E b \in BodyTokens : WriteBody(<<b>>)
    \/ Drop
    \/ DropWrite
    \/ \E uri \in Uris : TryHit(uri)
    \/ Hydrate
    \/ ClearMemory

SpecCache == CacheInit /\ [][CacheNext]_vars

-----------------------------------------------------------------------------
(* Actions of SpecSort: the two sort_by calls of fetch_and_score_prs, from *)
(* the state at fetch.rs:189 with the scored vectors drawn                *)

\* the longest vector sorted
MaxSortLen == 3

\* An item scored with a config of this base score and no factor.
SortEntry(url, created_at, score) ==
    <<ScoredPr(url, created_at, {}, <<1, 1>>, 0, FALSE, None),
      [score |-> score, incomplete |-> FALSE,
       breakdown |-> [base_score |-> score, factors |-> <<>>]]>>

SortEntries ==
    {SortEntry(url, created_at, score) :
        url \in {"u1", "u2", "u3"}, created_at \in {0, 3600}, score \in {0, 100}}

\* The vectors of up to MaxSortLen entries with distinct urls.
RECURSIVE SortInputs(_)
SortInputs(n) ==
    IF n = 0 THEN {<<>>}
    ELSE LET shorter == SortInputs(n - 1)
         IN  shorter \cup
             {Append(s, e) : <<s, e>> \in
                 {x \in shorter \X SortEntries :
                     \A i \in 1..Len(x[1]) : x[1][i][1].url # x[2][1].url}}

SortInit ==
    /\ SearchIdle
    /\ PipeIdle
    /\ ScoreIdle
    /\ CacheIdle
    /\ CallIdle
    /\ TuiIdle
    /\ f_pc = "sort"
    /\ queries = <<>>
    /\ global_scoring = None
    /\ snooze_state = <<>>
    /\ futures = {}
    /\ f_results = <<>>
    /\ all_prs = <<>>
    /\ any_succeeded = FALSE
    /\ unique_prs = <<>>
    /\ pr_to_query_index = <<>>
    /\ active_scored \in SortInputs(MaxSortLen)
    /\ snoozed_scored \in {<<>>, <<SortEntry("u4", 0, 0), SortEntry("u5", 0, 100)>>}
    /\ f_result = None

\* fetch.rs:190-191
SortLists ==
    /\ f_pc = "sort"
    /\ active_scored' = SortBy(active_scored)
    /\ snoozed_scored' = SortBy(snoozed_scored)
    /\ f_pc' = "ratelimit"
    /\ UNCHANGED <<queries, global_scoring, snooze_state, futures, f_results,
                   all_prs, any_succeeded, unique_prs, pr_to_query_index, f_result,
                   searchVars, pipeVars, scoreVars, callVars, tuiVars, cacheVars>>

SortNext == SortLists \/ RateLimitReply

SpecSort == SortInit /\ [][SortNext]_vars

-----------------------------------------------------------------------------
(* SpecMerge: one call of merge_scoring_configs on drawn configs *)

Bug == <<"bug", FALSE>>

\* labels of the global config: none; [("urgent", "+10"), ("wip", "x-1")];
\* [("urgent", "+10"), ("Urgent", "x2")]
MergeGlobalLabels ==
    {None,
     Some(<<LabelEffect(Urgent, <<Plus, Num(10)>>),
            LabelEffect(Wip, <<Times, Minus, Num(1)>>)>>),
     Some(<<LabelEffect(Urgent, <<Plus, Num(10)>>),
            LabelEffect(UrgentUpper, <<Times, Num(2)>>)>>)}

\* labels of a query config: none; [("Urgent", "x3")]; [("wip", "x2"),
\* ("bug", "+5")]
MergeQueryLabels ==
    {None,
     Some(<<LabelEffect(UrgentUpper, <<Times, Num(3)>>)>>),
     Some(<<LabelEffect(Wip, <<Times, Num(2)>>),
            LabelEffect(Bug, <<Plus, Num(5)>>)>>)}

\* size sections: absent, or exclude and buckets each absent or set.
MergeSizes(exclude, buckets) ==
    {None} \cup {Some(SizeConfig(e, b)) : e \in {None, Some(exclude)},
                                          b \in {None, Some(buckets)}}

\* global configs: every field absent or set.
MergeGlobals ==
    {ScoringConfig(b, a, ap, sz, l, r) :
        b \in {None, Some(100)},
        a \in {None, Some(<<Plus, Num(1), Per, Num(1), Hours>>)},
        ap \in {None, Some(<<Plus, Num(10), Per, Num(1)>>)},
        sz \in MergeSizes(<<"*.lock">>,
                          <<SizeBucket(<<Lt, Num(100)>>, <<Times, Num(2)>>)>>),
        l \in MergeGlobalLabels,
        r \in {None, Some(<<Times, Minus, Num(2)>>)}}

\* query configs: every field absent or set, to values the global configs
\* do not use.
MergeQueries ==
    {ScoringConfig(b, a, ap, sz, l, r) :
        b \in {None, Some(10)},
        a \in {None, Some(<<Times, Num(2), Per, Num(1), Hours>>)},
        ap \in {None, Some(<<Times, Minus, Num(1)>>)},
        sz \in MergeSizes(<<"*.md">>,
                          <<SizeBucket(<<Lt, Num(200)>>, <<Times, Num(3)>>)>>),
        l \in MergeQueryLabels,
        r \in {None, Some(<<Plus, Num(5)>>)}}

MergeInit ==
    /\ SearchIdle
    /\ PipeIdle
    /\ ScoreIdle
    /\ FetchIdle
    /\ CacheIdle
    /\ TuiIdle
    /\ fn_in \in {[fn |-> "merge_scoring_configs", global |-> g, query |-> q] :
                     g \in MergeGlobals, q \in Opt(MergeQueries)}
    /\ fn_out = None

\* config.rs:106-125
Merge ==
    /\ fn_in # <<>>
    /\ fn_in.fn = "merge_scoring_configs"
    /\ fn_out = None
    /\ \E merged \in merge_scoring_configs(fn_in.global, fn_in.query) :
           fn_out' = Some(merged)
    /\ UNCHANGED <<fn_in, searchVars, pipeVars, scoreVars, fetchVars, cacheVars,
                   tuiVars>>

SpecMerge == MergeInit /\ [][Merge]_vars

-----------------------------------------------------------------------------
(* scoring/validation.rs: validate_scoring *)

\* the longest size bucket list drawn
MaxBuckets == 3

\* One message of the error list: the field it names (with the bucket, glob
\* or label positions, counted from 0 as the code does) and the offending
\* strings it quotes.
ValidationError(at, cites) == [at |-> at, cites |-> cites]

\* validation.rs:132-166
do_ranges_overlap(r1, r2) ==
    LET Is(a, b) == r1.op = a /\ r2.op = b
        Either(a, b) == Is(a, b) \/ Is(b, a)
        \* the range with operator a, when exactly one of the two has it
        The(a) == IF r1.op = a THEN r1 ELSE r2
        Lower == {">", ">="}
        Upper == {"<", "<="}
    IN  CASE Is("=", "=") -> r1.lo = r2.lo
          [] Either("=", "between") ->
                 The("=").lo >= The("between").lo /\ The("=").lo <= The("between").hi
          [] Either("=", "<") -> The("=").lo < The("<").lo
          [] Either("=", "<=") -> The("=").lo <= The("<=").lo
          [] Either("=", ">") -> The("=").lo > The(">").lo
          [] Either("=", ">=") -> The("=").lo >= The(">=").lo
          [] Is("between", "between") ->
                 \/ r1.lo >= r2.lo /\ r1.lo <= r2.hi
                 \/ r2.lo >= r1.lo /\ r2.lo <= r1.hi
          [] r1.op \in Upper /\ r2.op \in Upper -> TRUE
          [] r1.op \in Lower /\ r2.op \in Lower -> TRUE
          [] Either("<", "between") -> The("between").lo < The("<").lo
          [] Either("<=", "between") -> The("between").lo <= The("<=").lo
          [] Either(">", "between") -> The("between").hi > The(">").lo
          [] Either(">=", "between") -> The("between").hi >= The(">=").lo
          [] Either("<", ">") -> The("<").lo > The(">").lo + 1
          [] Either("<", ">=") -> The("<").lo > The(">=").lo
          [] Either("<=", ">") -> The("<=").lo > The(">").lo
          [] Either("<=", ">=") -> The("<=").lo >= The(">=").lo

\* The pairs (i, j), i < j, of positions 1..n in the order the two loops of
\* check_bucket_overlaps visit them.
RECURSIVE PairsFrom(_, _, _)
PairsFrom(i, j, n) ==
    IF i >= n THEN <<>>
    ELSE IF j > n THEN PairsFrom(i + 1, i + 2, n)
    ELSE <<<<i, j>>>> \o PairsFrom(i, j + 1, n)

\* validation.rs:113-130: None for Ok(()), or Some(the error of the first
\* pair at which a range does not parse or the two ranges overlap).
RECURSIVE CheckPairs(_, _)
CheckPairs(buckets, pairs) ==
    IF pairs = <<>> THEN None
    ELSE LET i == Head(pairs)[1]
             j == Head(pairs)[2]
             r1 == RangeParse(buckets[i].range)
             r2 == RangeParse(buckets[j].range)
         IN  IF r1 = None THEN Some(ValidationError(<<"bucket", i - 1>>, <<>>))
             ELSE IF r2 = None THEN Some(ValidationError(<<"bucket", j - 1>>, <<>>))
             ELSE IF do_ranges_overlap(Unwrap(r1), Unwrap(r2))
             THEN Some(ValidationError(<<"scoring.size.buckets", i - 1, j - 1>>,
                                       <<buckets[i].range, buckets[j].range>>))
             ELSE CheckPairs(buckets, Tail(pairs))

\* Mutant of check_bucket_overlaps: only neighbouring buckets are compared.
check_bucket_overlaps_Neighbours(buckets) ==
    CheckPairs(buckets, [k \in 1..(Len(buckets) - 1) |-> <<k, k + 1>>])

check_bucket_overlaps(buckets) ==
    CheckPairs(buckets, PairsFrom(1, 2, Len(buckets)))

\* glob::Pattern::new on the patterns tried: "[a" does not compile.
GlobCompiles(pattern) == pattern # "[a"

\* str::trim().is_empty() on a label name (a pair whose first part is the
\* lower-case spelling).
NameIsBlank(name) == name[1] \in {"", " "}

\* The concatenation of a sequence of sequences.
RECURSIVE Concat(_)
Concat(seqs) == IF seqs = <<>> THEN <<>> ELSE Head(seqs) \o Concat(Tail(seqs))

\* The messages of a list of items, item by item, in order.
ErrorsOfEach(items, ErrorsOf(_, _)) ==
    Concat([i \in 1..Len(items) |-> ErrorsOf(i - 1, items[i])])

\* validation.rs:44-57
BucketErrors(i, bucket) ==
    (IF RangeParse(bucket.range) = None
     THEN <<ValidationError(<<"scoring.size.buckets.range", i>>, <<bucket.range>>)>>
     ELSE <<>>)
    \o (IF EffectParse(bucket.effect) = None
        THEN <<ValidationError(<<"scoring.size.buckets.effect", i>>, <<bucket.effect>>)>>
        ELSE <<>>)

\* validation.rs:69-78
ExcludeErrors(i, pattern) ==
    IF GlobCompiles(pattern) THEN <<>>
    ELSE <<ValidationError(<<"scoring.size.exclude", i>>, <<pattern>>)>>

\* validation.rs:82-93
LabelErrors(i, label_effect) ==
    (IF NameIsBlank(label_effect.name)
     THEN <<ValidationError(<<"scoring.labels.name", i>>, <<>>)>>
     ELSE <<>>)
    \o (IF EffectParse(label_effect.effect) = None
        THEN <<ValidationError(<<"scoring.labels.effect", i>>, <<label_effect.effect>>)>>
        ELSE <<>>)

\* validation.rs:7-111: the error list; empty stands for Ok(()).
validate_scoring(config) ==
    (IF IsSome(config.base_score) /\ Unwrap(config.base_score) < 0
     THEN <<ValidationError(<<"scoring.base_score">>, <<>>)>> ELSE <<>>)
    \o (IF IsSome(config.age) /\ EffectParse(Unwrap(config.age)) = None
        THEN <<ValidationError(<<"scoring.age">>, <<Unwrap(config.age)>>)>>
        ELSE <<>>)
    \o (IF IsSome(config.approvals)
           /\ EffectParse(ApprovalsParseable(Unwrap(config.approvals))) = None
        THEN <<ValidationError(<<"scoring.approvals">>, <<Unwrap(config.approvals)>>)>>
        ELSE <<>>)
    \o (IF IsSome(config.size) /\ IsSome(Unwrap(config.size).buckets)
        THEN LET buckets == Unwrap(Unwrap(config.size).buckets)
             IN  ErrorsOfEach(buckets, BucketErrors)
                 \o check_bucket_overlaps(buckets)
        ELSE <<>>)
    \o (IF IsSome(config.size) /\ IsSome(Unwrap(config.size).exclude)
        THEN ErrorsOfEach(Unwrap(Unwrap(config.size).exclude), ExcludeErrors)
        ELSE <<>>)
    \o (IF IsSome(config.labels)
        THEN ErrorsOfEach(Unwrap(config.labels), LabelErrors)
        ELSE <<>>)
    \o (IF IsSome(config.previously_reviewed)
           /\ EffectParse(Unwrap(config.previously_reviewed)) = None
        THEN <<ValidationError(<<"scoring.previously_reviewed">>,
                               <<Unwrap(config.previously_reviewed)>>)>>
        ELSE <<>>)

-----------------------------------------------------------------------------
(* SpecValidate: one call of validate_scoring on a drawn config *)

\* ("<=100", "x2"), (">=100", "x3"), ("<100", "x2"), ("100-500", "junk"),
\* ("junk", "x2"), (">500", "x3"), ("100", "x2")
ValidatedBuckets ==
    {SizeBucket(<<Le, Num(100)>>, <<Times, Num(2)>>),
     SizeBucket(<<Ge, Num(100)>>, <<Times, Num(3)>>),
     SizeBucket(<<Lt, Num(100)>>, <<Times, Num(2)>>),
     SizeBucket(<<Num(100), Minus, Num(500)>>, <<Junk>>),
     SizeBucket(<<Junk>>, <<Times, Num(2)>>),
     SizeBucket(<<Gt, Num(500)>>, <<Times, Num(3)>>),
     SizeBucket(<<Num(100)>>, <<Times, Num(2)>>)}

\* The sequences over S of length at most n.
SeqsUpTo(S, n) == UNION {[1..k -> S] : k \in 0..n}

ValidatedBlank == <<" ", FALSE>>

\* The exclude globs, label rules and previously_reviewed string are drawn
\* together: all absent, or ["[a", "*.md"], [(" ", "+1"), ("urgent", "junk")]
\* and "junk".
ValidatedConfigs ==
    {ScoringConfig(b, a, ap,
                   IF sized
                   THEN Some(SizeConfig(IF dirty THEN Some(<<"[a", "*.md">>) ELSE None, bk))
                   ELSE None,
                   IF dirty
                   THEN Some(<<LabelEffect(ValidatedBlank, <<Plus, Num(1)>>),
                               LabelEffect(Urgent, <<Junk>>)>>)
                   ELSE None,
                   IF dirty THEN Some(<<Junk>>) ELSE None) :
        b \in {Some(100), Some(0 - 5)},
        a \in {Some(<<Plus, Num(1), Per, Num(1), Hours>>), Some(<<Junk>>)},
        ap \in {Some(<<Plus, Num(10), Per, Num(1)>>), Some(<<Junk>>)},
        bk \in Opt(SeqsUpTo(ValidatedBuckets, MaxBuckets)),
        sized \in BOOLEAN, dirty \in BOOLEAN}

ValidateInit ==
    /\ SearchIdle
    /\ PipeIdle
    /\ ScoreIdle
    /\ FetchIdle
    /\ CacheIdle
    /\ TuiIdle
    /\ fn_in \in {[fn |-> "validate_scoring", config |-> c] : c \in ValidatedConfigs}
    /\ fn_out = None

\* validation.rs:7-111
Validate ==
    /\ fn_in # <<>>
    /\ fn_in.fn = "validate_scoring"
    /\ fn_out = None
    /\ fn_out' = Some(validate_scoring(fn_in.config))
    /\ UNCHANGED <<fn_in, searchVars, pipeVars, scoreVars, fetchVars, cacheVars,
                   tuiVars>>

SpecValidate == ValidateInit /\ [][Validate]_vars

-----------------------------------------------------------------------------
(* SpecApply: one call of Effect::apply on a drawn effect, score and units *)

\* the largest unit count drawn
MaxUnits == 3

AppliedEffects ==
    {Effect(kind, n, IF kind \in {"AddPerUnit", "MultiplyPerUnit"} THEN 3600000 ELSE 0) :
        kind \in {"Add", "Multiply", "AddPerUnit", "MultiplyPerUnit"},
        n \in {0 - 2, 0, 1, 2, 10}}

ApplyInit ==
    /\ SearchIdle
    /\ PipeIdle
    /\ ScoreIdle
    /\ FetchIdle
    /\ CacheIdle
    /\ TuiIdle
    /\ fn_in \in {[fn |-> "apply", effect |-> e, score |-> s, units |-> u] :
                     e \in AppliedEffects, s \in {0 - 5, 0, 100}, u \in 0..MaxUnits}
    /\ fn_out = None

\* factors.rs:84-91
Apply ==
    /\ fn_in # <<>>
    /\ fn_in.fn = "apply"
    /\ fn_out = None
    /\ fn_out' = Some(EffectApply(fn_in.effect, fn_in.score, fn_in.units))
    /\ UNCHANGED <<fn_in, searchVars, pipeVars, scoreVars, fetchVars, cacheVars,
                   tuiVars>>

SpecApply == ApplyInit /\ [][Apply]_vars

-----------------------------------------------------------------------------
(* tui/mod.rs: run_tui, one step per loop iteration; the spawned fetch task
   and the passing of time are steps of their own. The dashboard runs with
   the cache enabled (app.cache_handle is Some), the item "u1" is what every
   successful fetch returns, and saving the snooze file succeeds. *)

\* the largest number of fetch tasks spawned
MaxFetches == 3

\* the largest number of entries on the undo stack
MaxUndo == 1

\* tui/mod.rs:34 and :212: the timeout around fetch_and_score_prs, in seconds
FETCH_TIMEOUT_SECS == 20

\* tui/mod.rs:185: a key press counts as recent for this many seconds
RECENT_INTERACTION_SECS == 10

\* tui/mod.rs:184
modal_open == input_mode # "Normal"

\* A spawned task: its number, the seconds its timeout allows, the seconds
\* it has run, and None while it runs or Some(what the JoinHandle yields):
\* "ok" for Ok(Ok(Ok(..))), "auth" and "err" for Ok(Ok(Err(e))), "elapsed"
\* for Ok(Err(_elapsed)).
FetchTask(id, timeout, secs, out) ==
    [id |-> id, timeout |-> timeout, secs |-> secs, out |-> out]

\* Mutant of SpawnFetch: the timeout is longer than 20 seconds.
SpawnFetchLongTimeout(id) == Some(FetchTask(id, FETCH_TIMEOUT_SECS + 2, 0, None))

\* tui/mod.rs:33-47 and :211-224: tokio::spawn of the fetch under its timeout
SpawnFetch(id) == Some(FetchTask(id, FETCH_TIMEOUT_SECS, 0, None))

\* tui/mod.rs:13-47: the state in which the loop is entered.
TuiInit ==
    /\ SearchIdle
    /\ PipeIdle
    /\ ScoreIdle
    /\ FetchIdle
    /\ CacheIdle
    /\ CallIdle
    /\ pending_fetch = SpawnFetch(1)
    /\ is_loading = TRUE
    /\ needs_refresh = FALSE
    /\ force_refresh = FALSE
    /\ input_mode = "Normal"
    /\ recent_interaction \in BOOLEAN
    /\ shown_prs = 0
    /\ spawned = 1
    /\ flash = ""
    /\ should_quit = FALSE
    /\ in_flight = {1}
    /\ refresh_kind = "none"
    /\ cleared = FALSE
    /\ app_snooze_state \in SUBSET {"u1"}
    /\ app_active_prs = {}
    /\ app_snoozed_prs = {}
    /\ fetch_snooze = app_snooze_state
    /\ undo_stack = <<>>

TuiOthers == <<searchVars, pipeVars, scoreVars, fetchVars, cacheVars, callVars>>

\* What the steps of the fetch task and of time leave alone.
TuiApp == <<is_loading, needs_refresh, force_refresh, input_mode, shown_prs,
            spawned, flash, should_quit, refresh_kind, cleared, app_snooze_state,
            app_active_prs, app_snoozed_prs, fetch_snooze, undo_stack>>

\* Time passes while the fetch runs, ten seconds at a time or up to the
\* deadline of the timer, which fires no later than at its deadline.
FetchRuns ==
    /\ IsSome(pending_fetch)
    /\ Unwrap(pending_fetch).out = None
    /\ Unwrap(pending_fetch).secs < Unwrap(pending_fetch).timeout
    /\ LET task == Unwrap(pending_fetch)
           later == task.secs + RECENT_INTERACTION_SECS
       IN  pending_fetch' = Some([task EXCEPT !.secs = IF later < task.timeout THEN later
                                                       ELSE task.timeout])
    /\ UNCHANGED <<recent_interaction, in_flight, TuiApp, TuiOthers>>

\* fetch_and_score_prs returns inside the task before the timeout fires.
FetchReturns(out) ==
    /\ IsSome(pending_fetch)
    /\ Unwrap(pending_fetch).out = None
    /\ pending_fetch' = Some([Unwrap(pending_fetch) EXCEPT !.out = Some(out)])
    /\ in_flight' = in_flight \ {Unwrap(pending_fetch).id}
    /\ UNCHANGED <<recent_interaction, TuiApp, TuiOthers>>

\* tokio::time::timeout: the deadline passes and the fetch is dropped.
TimeoutFires ==
    /\ IsSome(pending_fetch)
    /\ Unwrap(pending_fetch).out = None
    /\ Unwrap(pending_fetch).secs = Unwrap(pending_fetch).timeout
    /\ pending_fetch' = Some([Unwrap(pending_fetch) EXCEPT !.out = Some("elapsed")])
    /\ in_flight' = in_flight \ {Unwrap(pending_fetch).id}
    /\ UNCHANGED <<recent_interaction, TuiApp, TuiOthers>>

\* Ten seconds pass without a key press.
InteractionAges ==
    /\ recent_interaction
    /\ recent_interaction' = FALSE
    /\ UNCHANGED <<pending_fetch, in_flight, TuiApp, TuiOthers>>

TuiKeys == {"r", "q", "s", "u", "z", "?", "Enter", "Esc"}

TuiEvents == TuiKeys \cup {"Tick", "Refresh"}

\* The fields of the App that a key can change.
AppFields ==
    [needs_refresh |-> needs_refresh, force_refresh |-> force_refresh,
     input_mode |-> input_mode, should_quit |-> should_quit, flash |-> flash,
     snooze_state |-> app_snooze_state, active_prs |-> app_active_prs,
     snoozed_prs |-> app_snoozed_prs, undo_stack |-> undo_stack]

\* app.rs:390-418: the lists after the item has moved, when its source list
\* holds it.
move_pr_between_lists(app, url, from_active_to_snoozed) ==
    IF from_active_to_snoozed
    THEN IF url \in app.active_prs
         THEN [app EXCEPT !.active_prs = @ \ {url}, !.snoozed_prs = @ \cup {url}]
         ELSE app
    ELSE IF url \in app.snoozed_prs
         THEN [app EXCEPT !.snoozed_prs = @ \ {url}, !.active_prs = @ \cup {url}]
         ELSE app

\* app.rs:235-290, with the selected item of the Active view and whether
\* the typed duration is empty or parses.
confirm_snooze_input(app, valid) ==
    IF "u1" \notin app.active_prs THEN [app EXCEPT !.input_mode = "Normal"]
    ELSE IF ~valid THEN [app EXCEPT !.flash = "invalid duration", !.input_mode = "Normal"]
    ELSE [move_pr_between_lists(
              [app EXCEPT !.snooze_state = @ \cup {"u1"},
                          !.undo_stack = <<"Snoozed">> \o @],
              "u1", TRUE)
          EXCEPT !.flash = "snoozed", !.input_mode = "Normal"]

\* app.rs:298-336, in the given view.
unsnooze_selected(app, view) ==
    IF view # "Snoozed" \/ "u1" \notin app.snoozed_prs THEN app
    ELSE [move_pr_between_lists(
              [app EXCEPT !.snooze_state = @ \ {"u1"},
                          !.undo_stack = <<"Unsnoozed">> \o @],
              "u1", FALSE)
          EXCEPT !.flash = "unsnoozed"]

\* app.rs:339-383
undo_last(app) ==
    IF app.undo_stack = <<>> THEN [app EXCEPT !.flash = "nothing to undo"]
    ELSE LET popped == [app EXCEPT !.undo_stack = Tail(@)] IN
         IF Head(app.undo_stack) = "Snoozed"
         THEN [move_pr_between_lists([popped EXCEPT !.snooze_state = @ \ {"u1"}],
                                     "u1", FALSE)
               EXCEPT !.flash = "undid snooze"]
         ELSE [move_pr_between_lists([popped EXCEPT !.snooze_state = @ \cup {"u1"}],
                                     "u1", TRUE)
               EXCEPT !.flash = "undid unsnooze"]

\* tui/mod.rs:242-336: the App after the key, pressed in the given view
\* (Tab switches the view in normal mode; the snooze input opens only in the
\* Active view).
handle_key_event(app, key, view, valid) ==
    CASE app.input_mode = "Normal" ->
             CASE key = "q" -> [app EXCEPT !.should_quit = TRUE]
               [] key = "r" -> [app EXCEPT !.needs_refresh = TRUE, !.force_refresh = TRUE,
                                           !.flash = "refreshing"]
               [] key = "s" -> IF view = "Active" /\ "u1" \in app.active_prs
                               THEN [app EXCEPT !.input_mode = "SnoozeInput"]
                               ELSE app
               [] key = "u" -> unsnooze_selected(app, view)
               [] key = "z" -> undo_last(app)
               [] key = "?" -> [app EXCEPT !.input_mode = "Help"]
               [] key = "Enter" ->
                      IF "u1" \in (IF view = "Active" THEN app.active_prs
                                   ELSE app.snoozed_prs)
                      THEN [app EXCEPT !.flash = "opened"]
                      ELSE app
               [] OTHER -> app
      [] app.input_mode = "SnoozeInput" ->
             CASE key = "Enter" -> confirm_snooze_input(app, valid)
               [] key = "Esc" -> [app EXCEPT !.input_mode = "Normal"]
               [] OTHER -> app
      [] OTHER -> [app EXCEPT !.input_mode = "Normal"]

\* Mutant of CanSpawn: a refresh is started while a fetch is pending.
CanSpawnWhilePending(needs, pending) == needs

\* tui/mod.rs:181
CanSpawn(needs, pending) == needs /\ pending = None

\* Mutant of RefreshAllowed: an automatic refresh is never suppressed.
RefreshAllowedAlways(is_manual, modal, recent) == TRUE

\* tui/mod.rs:190
RefreshAllowed(is_manual, modal, recent) == is_manual \/ (~modal /\ ~recent)

\* app.rs:465-504 on the lists of a fetch that was given the snapshot of the
\* snooze state (fetch.rs:118-132); the snooze file read back is the one
\* last saved.
update_prs(app, snapshot) ==
    [app EXCEPT !.active_prs = {"u1"} \ snapshot,
                !.snoozed_prs = {"u1"} \cap snapshot,
                !.flash = "refreshed"]

\* tui/mod.rs:77-240: one iteration of the main loop on one event. The view,
\* the validity of the typed duration and the outcome of the re-prompt are
\* drawn only where the iteration reads them.
TuiLoop(event, view, valid, reprompt_ok) ==
    /\ spawned > 0
    /\ ~should_quit
    /\ (input_mode = "SnoozeInput" \/ event \notin {"s", "u", "Enter"}) => view = "Active"
    /\ (input_mode # "SnoozeInput" \/ event # "Enter") => valid
    /\ (pending_fetch = None \/ Unwrap(pending_fetch).out # Some("auth")) => reprompt_ok
    /\ LET is_key == event \in TuiKeys
           recent1 == recent_interaction \/ is_key
           finished == IsSome(pending_fetch) /\ IsSome(Unwrap(pending_fetch).out)
           out == IF finished THEN Unwrap(Unwrap(pending_fetch).out) ELSE ""
           pending2 == IF finished THEN None ELSE pending_fetch
           loading2 == IF finished THEN FALSE ELSE is_loading
       IN  \* :79-91 the event
           \E app1 \in {IF is_key THEN handle_key_event(AppFields, event, view, valid)
                        ELSE IF event = "Refresh"
                        THEN [AppFields EXCEPT !.needs_refresh = TRUE]
                        ELSE AppFields} :
           \* :94-167 the finished fetch
           \E app2 \in {CASE out = "ok" -> update_prs(app1, fetch_snooze)
                          [] out = "auth" ->
                                 IF reprompt_ok
                                 THEN [app1 EXCEPT !.needs_refresh = TRUE,
                                                   !.flash = "re-authenticated"]
                                 ELSE [app1 EXCEPT !.flash = "re-auth failed"]
                          [] out = "err" -> [app1 EXCEPT !.flash = "refresh failed"]
                          [] out = "elapsed" -> [app1 EXCEPT !.flash = "timed out"]
                          [] OTHER -> app1} :
           \* :181-224 the new fetch
           \E is_manual \in {app2.force_refresh} :
           \E spawns \in {/\ CanSpawn(app2.needs_refresh, pending2)
                          /\ RefreshAllowed(is_manual, app2.input_mode # "Normal",
                                            recent1)} :
               /\ spawns => spawned < MaxFetches
               /\ Len(app2.undo_stack) <= MaxUndo
               /\ pending_fetch' = IF spawns THEN SpawnFetch(spawned + 1) ELSE pending2
               /\ spawned' = IF spawns THEN spawned + 1 ELSE spawned
               /\ in_flight' = IF spawns THEN in_flight \cup {spawned + 1} ELSE in_flight
               /\ refresh_kind' = IF ~spawns THEN "none"
                                  ELSE IF is_manual THEN "manual" ELSE "auto"
               /\ cleared' = (spawns /\ is_manual)
               /\ fetch_snooze' = IF spawns THEN app2.snooze_state ELSE fetch_snooze
               /\ is_loading' = IF spawns THEN TRUE ELSE loading2
               /\ needs_refresh' = IF spawns THEN FALSE ELSE app2.needs_refresh
               /\ force_refresh' = IF spawns /\ is_manual THEN FALSE
                                   ELSE app2.force_refresh
               /\ input_mode' = app2.input_mode
               /\ recent_interaction' = recent1
               /\ shown_prs' = IF out = "ok" THEN Unwrap(pending_fetch).id ELSE shown_prs
               /\ flash' = app2.flash
               /\ should_quit' = app2.should_quit
               /\ app_snooze_state' = app2.snooze_state
               /\ app_active_prs' = app2.active_prs
               /\ app_snoozed_prs' = app2.snoozed_prs
               /\ undo_stack' = app2.undo_stack
    /\ UNCHANGED TuiOthers

TuiNext ==
    \/ FetchRuns
    \/ \E out \in {"ok", "err", "auth"} : FetchReturns(out)
    \/ TimeoutFires
    \/ InteractionAges
    \/ \E event \in TuiEvents, view \in {"Active", "Snoozed"},
          valid \in BOOLEAN, reprompt_ok \in BOOLEAN :
           TuiLoop(event, view, valid, reprompt_ok)

SpecTui == TuiInit /\ [][TuiNext]_vars

-----------------------------------------------------------------------------
(* SpecEffect: Effect::parse, and the age and approvals factors of
   calculate_score, each on drawn inputs *)

\* "+1 per 1h", "x2 per 1h", "+1 per 2s", "+1 per 1500ms", "+1 per 500ms",
\* "+1 per 0s", "+5", "x3", and two strings that are no effect
EffectStrings ==
    {<<Plus, Num(1), Per, Num(1), Hours>>,
     <<Times, Num(2), Per, Num(1), Hours>>,
     <<Plus, Num(1), Per, Num(2), Secs>>,
     <<Plus, Num(1), Per, Num(1500), Millis>>,
     <<Plus, Num(1), Per, Num(500), Millis>>,
     <<Plus, Num(1), Per, Num(0), Secs>>,
     <<Plus, Num(5)>>,
     <<Times, Num(3)>>,
     <<Plus, Num(1), Per, Junk>>,
     <<Junk>>}

\* "+10 per 1", "+10 per 2", "x2 per 1", "x2 per 2", "+10 per 1h", "+5",
\* and a string that is no effect
ApprovalsEffectStrings ==
    {<<Plus, Num(10), Per, Num(1)>>,
     <<Plus, Num(10), Per, Num(2)>>,
     <<Times, Num(2), Per, Num(1)>>,
     <<Times, Num(2), Per, Num(2)>>,
     <<Plus, Num(10), Per, Num(1), Hours>>,
     <<Plus, Num(5)>>,
     <<Junk>>}

\* pr.age().num_seconds(): an hour in the future, now, 1 s, 3 s, just under
\* an hour, two hours, a day
EffectAges == {0 - 3600, 0, 1, 3, 3599, 7200, 86400}

\* the largest number of approvals drawn
MaxApprovals == 4

EffectInit ==
    /\ SearchIdle
    /\ PipeIdle
    /\ ScoreIdle
    /\ FetchIdle
    /\ CacheIdle
    /\ TuiIdle
    /\ fn_in \in {[fn |-> "parse", s |-> s] : s \in EffectStrings}
                 \cup {[fn |-> "age", base_score |-> 100, s |-> s, age |-> age] :
                          s \in EffectStrings, age \in EffectAges}
                 \cup {[fn |-> "approvals", base_score |-> 100, s |-> s, approvals |-> a] :
                          s \in ApprovalsEffectStrings, a \in 0..MaxApprovals}
    /\ fn_out = None

\* factors.rs:61-81
ParseEffect ==
    /\ fn_in # <<>>
    /\ fn_in.fn = "parse"
    /\ fn_out = None
    /\ fn_out' = Some(EffectParse(fn_in.s))
    /\ UNCHANGED <<fn_in, searchVars, pipeVars, scoreVars, fetchVars, cacheVars,
                   tuiVars>>

\* engine.rs:32-55: the age factor from the base score; units is the count
\* handed to Effect::apply, None when the string is no effect.
AgeFactor ==
    /\ fn_in # <<>>
    /\ fn_in.fn = "age"
    /\ fn_out = None
    /\ LET config == ScoringConfig(Some(fn_in.base_score), Some(fn_in.s),
                                   None, None, None, None)
           effect == EffectParse(fn_in.s)
       IN  fn_out' = Some([units |-> IF IsSome(effect)
                                     THEN Some(calculate_units(Unwrap(effect), fn_in.age))
                                     ELSE None,
                           run |-> AgeStep(Run(fn_in.base_score, <<>>), fn_in.age, config)])
    /\ UNCHANGED <<fn_in, searchVars, pipeVars, scoreVars, fetchVars, cacheVars,
                   tuiVars>>

\* engine.rs:57-87: the approvals factor from the base score; units is
\* pr.approvals as u64 when the string parses.
ApprovalsFactor ==
    /\ fn_in # <<>>
    /\ fn_in.fn = "approvals"
    /\ fn_out = None
    /\ LET config == ScoringConfig(Some(fn_in.base_score), None, Some(fn_in.s),
                                   None, None, None)
           pr == [approvals |-> fn_in.approvals]
           effect == EffectParse(ApprovalsParseable(fn_in.s))
       IN  fn_out' = Some([units |-> IF IsSome(effect) THEN Some(pr.approvals) ELSE None,
                           run |-> ApprovalsStep(Run(fn_in.base_score, <<>>), pr, config)])
    /\ UNCHANGED <<fn_in, searchVars, pipeVars, scoreVars, fetchVars, cacheVars,
                   tuiVars>>

EffectNext == ParseEffect \/ AgeFactor \/ ApprovalsFactor

SpecEffect == EffectInit /\ [][EffectNext]_vars

-----------------------------------------------------------------------------
(* SpecOverlap: do_ranges_overlap on two parsed range strings *)

\* the largest number written in a drawn range
MaxRangeValue == 3

\* "<n", "<=n", ">n", ">=n", "n" and "l-h" over the numbers 0..MaxRangeValue
RangeStrings ==
    {<<op, Num(n)>> : op \in {Lt, Le, Gt, Ge}, n \in 0..MaxRangeValue}
    \cup {<<Num(n)>> : n \in 0..MaxRangeValue}
    \cup {<<Num(l), Minus, Num(h)>> : l, h \in 0..MaxRangeValue}

OverlapInit ==
    /\ SearchIdle
    /\ PipeIdle
    /\ ScoreIdle
    /\ FetchIdle
    /\ CacheIdle
    /\ TuiIdle
    /\ fn_in \in {[fn |-> "do_ranges_overlap", s1 |-> s1, s2 |-> s2] :
                     s1, s2 \in RangeStrings}
    /\ fn_out = None

\* validation.rs:116-121: both ranges are parsed and compared.
Overlap ==
    /\ fn_in # <<>>
    /\ fn_in.fn = "do_ranges_overlap"
    /\ fn_out = None
    /\ IsSome(RangeParse(fn_in.s1))
    /\ IsSome(RangeParse(fn_in.s2))
    /\ fn_out' = Some(do_ranges_overlap(Unwrap(RangeParse(fn_in.s1)),
                                        Unwrap(RangeParse(fn_in.s2))))
    /\ UNCHANGED <<fn_in, searchVars, pipeVars, scoreVars, fetchVars, cacheVars,
                   tuiVars>>

SpecOverlap == OverlapInit /\ [][Overlap]_vars

-----------------------------------------------------------------------------
(* Properties of search_and_enrich_prs (Spec) *)

Dispatched == {i \in 1..Len(prs) : handed[i] > 0 /\ st[i] # "done"}

\* C5: at every point of search_and_enrich_prs at most
\* MAX_CONCURRENT_ENRICHMENTS enrichment tasks have been dispatched and have
\* not yet completed.
C5_PoolBounded == Cardinality(Dispatched) <= MAX_CONCURRENT_ENRICHMENTS

\* The pool is full, earlier tasks have completed and items are still waiting.
C5_Witness ==
    /\ Cardinality(Dispatched) = MAX_CONCURRENT_ENRICHMENTS
    /\ \E i \in 1..Len(prs) : st[i] = "done"
    /\ next_pr <= Len(prs)

\* C7 as claimed: once a request of an enrichment task has failed with a
\* rate-limit signal, the shared flag is set.
C7_FlagSetOnRateLimit == rl_observed => rate_limited

AtDefaults(pr) ==
    /\ pr.additions = 0 /\ pr.deletions = 0
    /\ pr.approvals = 0 /\ pr.user_has_reviewed = FALSE

Returned == pc = "done" /\ IsSome(result) /\ Unwrap(result).ok

\* Number of copies of the item at position i in the returned list.
CopiesReturned(i) ==
    LET B == Unwrap(result).val
        same == {p \in BagToSet(B) : p.number = prs[i].number}
    IN  BagCardinality([p \in same |-> B[p]])

\* C8: every item search_prs returned appears exactly once in the list
\* search_and_enrich_prs returns, and no item is handed to two tasks.
C8_ExactlyOnce ==
    /\ \A i \in 1..Len(prs) : handed[i] <= 1
    /\ Returned =>
          /\ \A i \in 1..Len(prs) : CopiesReturned(i) = 1
          /\ BagCardinality(Unwrap(result).val) = Len(prs)

\* A returned list with an enriched item and an item whose enrichment failed.
C8_Witness ==
    /\ Returned
    /\ \E i, j \in 1..Len(prs) :
          /\ joined[i] = "ok" /\ joined[j] = "err"

\* C8 for a search result larger than the pool.
C8_WitnessLarge == Returned /\ Len(prs) > MAX_CONCURRENT_ENRICHMENTS

\* C9: search_and_enrich_prs succeeds whenever search_prs does; an item whose
\* detail or review request failed keeps additions, deletions, approvals and
\* user_has_reviewed (and filtered_size) at their defaults; and a step of one
\* task changes no other item.
C9_Defaults ==
    /\ (pc = "done" /\ Unwrap(search_result).ok) => Unwrap(result).ok
    /\ \A i \in 1..Len(prs) :
          joined[i] = "err" => AtDefaults(prs[i]) /\ prs[i].filtered_size = None

C9_Frame ==
    pc = "enrich" =>
        \A i \in 1..Len(prs) :
            prs'[i] # prs[i] =>
                /\ st[i] \in {"running", "files"}
                /\ \A j \in 1..Len(prs) : j # i => prs'[j] = prs[j]

C9_NonFatal == []C9_Defaults /\ [][C9_Frame]_vars

\* An item whose review request failed after its detail request succeeded
\* has been returned beside an enriched one.
C9_Witness ==
    /\ Returned
    /\ \E i, j \in 1..Len(prs) :
          /\ joined[i] = "err" /\ AtDefaults(prs[i])
          /\ joined[j] = "ok" /\ ~AtDefaults(prs[j])

-----------------------------------------------------------------------------
(* Properties of search_prs (SpecSearch) *)

\* The classes of a failure, from the text of its error.
IsAuth(text) == "401" \in text \/ "Bad credentials" \in text
IsRateLimit(text) == ~IsAuth(text) /\ ("rate limit" \in text \/ "403" \in text)
IsPermissionOrNotFound(text) ==
    /\ ~IsAuth(text) /\ ~IsRateLimit(text)
    /\ ("do not have permission" \in text \/ "resources do not exist" \in text)
IsTransient(text) ==
    ~IsAuth(text) /\ ~IsRateLimit(text) /\ ~IsPermissionOrNotFound(text)

SearchFailed == spc = "done" /\ IsSome(search_result) /\ ~Unwrap(search_result).ok

\* The failure search_prs returned, when it has returned one.
LastError == errors[Len(errors)]

\* C10 as claimed: a failure classified as Auth, RateLimit, Permission or
\* NotFound is returned after exactly one attempt and no backoff sleep.
C10_ExactlyOneAttempt ==
    (SearchFailed /\ ~IsTransient(LastError)) => attempt = 1 /\ sleeps = <<>>

\* C10, amended: the attempt that fails with a failure classified as Auth,
\* RateLimit, Permission or NotFound is the last one: its error is returned
\* with no sleep and no attempt after it (every earlier attempt failed
\* transiently and was followed by one sleep), Auth as the typed AuthError
\* and only Auth.
C10_NoRetryAfterFatal ==
    /\ \A k \in 1..Len(errors) :
          ~IsTransient(errors[k]) =>
              /\ k = Len(errors)
              /\ SearchFailed
              /\ attempt = k
              /\ Len(sleeps) = k - 1
              /\ (Unwrap(search_result).val.type = "AuthError") = IsAuth(errors[k])
              /\ ~ENABLED SearchNext
    /\ (Len(errors) = 1 /\ ~IsTransient(errors[1])) => attempt = 1 /\ sleeps = <<>>

\* An Auth failure of the first attempt has been returned.
C10_Witness ==
    /\ SearchFailed /\ attempt = 1 /\ sleeps = <<>>
    /\ IsAuth(LastError)
    /\ Unwrap(search_result).val = AuthError



-----------------------------------------------------------------------------
(* Properties of calculate_score (SpecScore) *)

\* The running score after the last factor, before the floor.
Unfloored(res) ==
    IF res.breakdown.factors = <<>> THEN res.breakdown.base_score
    ELSE res.breakdown.factors[Len(res.breakdown.factors)].after

\* C4: the score calculate_score returns is never negative.
C4_ScoreNonNegative == IsSome(score_result) => Unwrap(score_result).score >= 0

\* The factors compounded to a negative running score, and 0 was returned.
C4_Witness ==
    /\ IsSome(score_result)
    /\ Len(Unwrap(score_result).breakdown.factors) >= 2
    /\ Unfloored(Unwrap(score_result)) < 0
    /\ Unwrap(score_result).score = 0

-----------------------------------------------------------------------------
(* Properties of fetch_and_score_prs (SpecFetch) *)

\* The queries whose result was an AuthError.
AuthFailed ==
    {q \in DOMAIN f_results :
        /\ IsSome(f_results[q])
        /\ ~Unwrap(f_results[q]).ok
        /\ Unwrap(f_results[q]).val.type = "AuthError"}

\* C1: as soon as the result of one query is an AuthError, fetch_and_score_prs
\* has returned that error and no lists, whatever the other queries did: they
\* may have succeeded, failed otherwise, or not have completed.
C1_AuthErrorReturned ==
    \A q \in AuthFailed :
        /\ f_pc = "done"
        /\ f_result = Some(Err(Unwrap(f_results[q]).val))
        /\ Unwrap(f_result).val = AuthError
        /\ active_scored = <<>>
        /\ snoozed_scored = <<>>

\* One query produced an AuthError after another had succeeded.
C1_Witness ==
    /\ AuthFailed # {}
    /\ \E q \in DOMAIN f_results :
          IsSome(f_results[q]) /\ Unwrap(f_results[q]).ok
             /\ Unwrap(f_results[q]).val # <<>>

\* The deduplication has run.
Deduplicated ==
    \/ f_pc = "ratelimit"
    \/ f_pc = "done" /\ Unwrap(f_result).ok

\* The position in all_prs of the first pair with this url.
FirstOccurrence(url) ==
    CHOOSE k \in 1..Len(all_prs) :
        /\ all_prs[k][1].url = url
        /\ \A j \in 1..(k - 1) : all_prs[j][1].url # url

\* C2: after the deduplication no two items of unique_prs share a url; every
\* url of the collected results is there exactly once, with the item of its
\* first occurrence, and is attributed to the query of that first occurrence.
C2_UniqueFirstWins ==
    Deduplicated =>
        /\ \A i, j \in 1..Len(unique_prs) :
              unique_prs[i].url = unique_prs[j].url => i = j
        /\ \A k \in 1..Len(all_prs) :
              LET url == all_prs[k][1].url
                  first == all_prs[FirstOccurrence(url)]
              IN  /\ Cardinality({i \in 1..Len(unique_prs) : unique_prs[i].url = url}) = 1
                  /\ \E i \in 1..Len(unique_prs) : unique_prs[i] = first[1]
                  /\ pr_to_query_index[url] = first[2]
        /\ \A i \in 1..Len(unique_prs) :
              \E k \in 1..Len(all_prs) : all_prs[k][1] = unique_prs[i]

\* Two queries found the same url with different contents, the later
\* configured query completing first.
C2_Witness ==
    /\ Deduplicated
    /\ \E k1, k2 \in 1..Len(all_prs) :
          /\ k1 < k2
          /\ all_prs[k1][1].url = all_prs[k2][1].url
          /\ all_prs[k1][1] # all_prs[k2][1]
          /\ all_prs[k1][2] > all_prs[k2][2]
          /\ pr_to_query_index[all_prs[k1][1].url] = all_prs[k1][2]

-----------------------------------------------------------------------------
(* Properties of DiskCache (SpecCache) *)

\* The last step finished dropping a writer whose body was rejected.
RejectedClose == IsSome(c_closed) /\ ~Unwrap(c_closed).accepted

\* C3 as stated: after a writer for a url is closed with a body that is not
\* well-formed JSON, try_hit and load miss for that url.
C3_MissAfterRejectedWrite ==
    RejectedClose =>
        /\ try_hit(c_keys, c_disk, Unwrap(c_closed).uri_key) = None
        /\ load(c_responses, Unwrap(c_closed).uri_key) = None

\* The step drops the open writer.
DropStep ==
    /\ IsSome(c_writer)
    /\ Unwrap(c_writer).phase = "open"
    /\ c_writer' = None \/ Unwrap(c_writer').phase = "disk"

C3_RejectedDrop ==
    (DropStep /\ ~IsJson(Unwrap(c_writer).response.body)) =>
        LET u == Unwrap(c_writer).uri_key IN
        /\ c_writer' = None
        /\ c_keys' = c_keys
        /\ c_responses' = c_responses
        /\ c_disk' = c_disk
        /\ (u \notin DOMAIN c_keys /\ u \notin DOMAIN c_responses /\ u \notin DOMAIN c_disk) =>
              /\ try_hit(c_keys', c_disk', u) = None
              /\ load(c_responses', u) = None

\* C3, amended: closing a writer whose body is not well-formed JSON (empty
\* and truncated bodies included) stores nothing in memory or on disk; if
\* no entry for the url was stored before, try_hit and load miss for it
\* afterwards.
C3_RejectedWriteNotStored == [][C3_RejectedDrop]_vars

\* A writer for a url without an entry was closed with a truncated body,
\* and the url misses, while the other url has an entry.
C3_Witness ==
    /\ RejectedClose
    /\ Unwrap(c_closed).body = <<"[">>
    /\ try_hit(c_keys, c_disk, Unwrap(c_closed).uri_key) = None
    /\ load(c_responses, Unwrap(c_closed).uri_key) = None
    /\ \E u \in Uris : IsSome(load(c_responses, u))

-----------------------------------------------------------------------------
(* More properties of search_prs (SpecSearch) *)

\* Every attempt failed transiently and the error has been surfaced.
RetriesUsedUp ==
    SearchFailed /\ \A k \in 1..Len(errors) : IsTransient(errors[k])

\* C11 as claimed: only transient failures are retried, there are at most 3
\* attempts, and a search that surfaces the error after its retries has
\* backed off for 100 ms, 200 ms and 400 ms.
C11_BackoffPolicy ==
    /\ attempt <= 3
    /\ \A k \in 1..(Len(errors) - 1) : IsTransient(errors[k])
    /\ RetriesUsedUp => sleeps = <<100, 200, 400>>

-----------------------------------------------------------------------------
(* More properties of fetch_and_score_prs (SpecFetch) *)

\* The queries that have produced a vector of items, and an error.
Succeeded ==
    {q \in DOMAIN f_results : IsSome(f_results[q]) /\ Unwrap(f_results[q]).ok}
FailedQueries ==
    {q \in DOMAIN f_results : IsSome(f_results[q]) /\ ~Unwrap(f_results[q]).ok}

\* The items collected for a query, in the order collected.
CollectedFor(q) ==
    LET Mine(pair) == pair[2] = q
        mine == SelectSeq(all_prs, Mine)
    IN  [k \in 1..Len(mine) |-> mine[k][1]]

\* C12: when no query result is an AuthError, fetch_and_score_prs returns Ok
\* exactly when some query succeeded or there are no queries; a failed query
\* contributes no pair to all_prs, and all_prs holds every item of every
\* successful query.
C12_SucceedsIffAnySucceeded ==
    /\ (f_pc = "done" /\ AuthFailed = {}) =>
          /\ Succeeded \cup FailedQueries = DOMAIN f_results
          /\ Unwrap(f_result).ok = (Succeeded # {} \/ queries = <<>>)
    /\ \A q \in FailedQueries : CollectedFor(q) = <<>>
    /\ \A q \in Succeeded : CollectedFor(q) = Unwrap(f_results[q]).val
    /\ \A k \in 1..Len(all_prs) : all_prs[k][2] \in Succeeded

\* The fetch has returned Ok with the items of one query, another query
\* having failed.
C12_Witness ==
    /\ f_pc = "done"
    /\ Unwrap(f_result).ok
    /\ FailedQueries # {}
    /\ AuthFailed = {}
    /\ \E q \in Succeeded : CollectedFor(q) # <<>>

\* Every query has failed, none with an AuthError, and the fetch has
\* returned the error.
C12_WitnessAllFailed ==
    /\ f_pc = "done"
    /\ ~Unwrap(f_result).ok
    /\ AuthFailed = {}
    /\ Cardinality(FailedQueries) > 1

\* The number of entries of a scored list that hold this item.
TimesIn(scored, pr) == Cardinality({i \in 1..Len(scored) : scored[i][1] = pr})

\* C13 as claimed: every item of unique_prs is in exactly one of the two
\* lists, so the lists are disjoint and together cover unique_prs.
C13_Partition ==
    Deduplicated =>
        /\ \A i \in 1..Len(unique_prs) :
              TimesIn(active_scored, unique_prs[i]) + TimesIn(snoozed_scored, unique_prs[i]) = 1
        /\ Len(active_scored) + Len(snoozed_scored) = Len(unique_prs)

-----------------------------------------------------------------------------
(* Properties of the sort (SpecSort) *)

\* The step sorts the two vectors.
SortStep == f_pc = "sort" /\ f_pc' = "ratelimit"

\* Score descending, and creation time ascending among equal scores.
Sorted(s) ==
    \A i, j \in 1..Len(s) :
        i < j => \/ s[i][2].score > s[j][2].score
                 \/ /\ s[i][2].score = s[j][2].score
                    /\ s[i][1].created_at <= s[j][1].created_at

\* Two entries with the same score and the same creation time.
FullTie(a, b) == a[2].score = b[2].score /\ a[1].created_at = b[1].created_at

\* The position of an entry in a vector of distinct entries.
PositionIn(s, e) == CHOOSE i \in 1..Len(s) : s[i] = e

\* out holds the entries of in, those that tie in score and creation time
\* in the order they have in in.
StableRearrangement(in, out) ==
    /\ Len(out) = Len(in)
    /\ {out[i] : i \in 1..Len(out)} = {in[i] : i \in 1..Len(in)}
    /\ \A i, j \in 1..Len(in) :
          (i < j /\ FullTie(in[i], in[j])) =>
              PositionIn(out, in[i]) < PositionIn(out, in[j])

\* The sorted vector is the same in whatever order the entries came.
OrderFixedByEntries(in, out) ==
    \A p \in Perms({in[i] : i \in 1..Len(in)}) : SortBy(p) = out

C14_SortDeterministic ==
    SortStep =>
        /\ Sorted(active_scored') /\ Sorted(snoozed_scored')
        /\ OrderFixedByEntries(active_scored, active_scored')
        /\ OrderFixedByEntries(snoozed_scored, snoozed_scored')

\* C14 as claimed: each list is sorted by score descending and, among equal
\* scores, by creation time ascending, and its order is fixed by the scores
\* and creation times, whatever order the entries had before the sort.
C14_SortedDeterministically == [][C14_SortDeterministic]_vars

C14_SortStable ==
    SortStep =>
        /\ Sorted(active_scored') /\ Sorted(snoozed_scored')
        /\ StableRearrangement(active_scored, active_scored')
        /\ StableRearrangement(snoozed_scored, snoozed_scored')

\* C14, amended: each list is sorted by score descending and, among equal
\* scores, by creation time ascending; entries equal in both keep the order
\* they had before the sort, so only up to such ties is the order fixed by
\* scores and creation times.
C14_SortedStably == [][C14_SortStable]_vars

\* A sorted list in which the creation time decided between two entries of
\* equal score, and which also holds two entries equal in both.
C14_Witness ==
    /\ f_pc = "ratelimit"
    /\ Len(active_scored) = 3
    /\ active_scored[1][2].score = active_scored[2][2].score
    /\ active_scored[1][1].created_at < active_scored[2][1].created_at
    /\ FullTie(active_scored[2], active_scored[3])

-----------------------------------------------------------------------------
(* More properties of DiskCache (SpecCache) *)

\* try_hit has returned a key for the uri and memory was not cleared since.
HitReturned(uri) ==
    IsSome(c_ret) /\ Unwrap(c_ret).uri = uri /\ IsSome(Unwrap(c_ret).val)

\* After try_hit returned a key, load finds a response in memory; load finds
\* nothing for a uri that is on disk only.
C15_LoadHits ==
    /\ \A uri \in Uris :
          HitReturned(uri) =>
              uri \in DOMAIN c_keys /\ IsSome(load(c_responses, uri))
    /\ \A uri \in DOMAIN c_disk \ DOMAIN c_responses : load(c_responses, uri) = None

\* try_hit goes to the disk only for a uri that is not in memory, and returns
\* the key in memory otherwise; load_from_disk puts what it read into memory
\* in the step in which it returns the key.
C15_TryHitSteps ==
    /\ (c_hit = None /\ IsSome(c_hit')) =>
          /\ Unwrap(c_hit').uri_key \notin DOMAIN c_keys
          /\ Some([key |-> Unwrap(c_hit').key, response |-> Unwrap(c_hit').response])
                = to_parts(c_disk[Unwrap(c_hit').uri_key])
    /\ (IsSome(c_hit) /\ c_hit' = None) =>
          LET h == Unwrap(c_hit) IN
          /\ c_keys'[h.uri_key] = h.key
          /\ c_responses'[h.uri_key] = h.response
          /\ c_ret' = Some(TryHitReturn(h.uri_key, Some(h.key)))
    /\ (c_ret' # c_ret /\ IsSome(c_ret') /\ c_hit = None /\ c_hit' = None) =>
          LET r == Unwrap(c_ret') IN
          r.val = IF r.uri \in DOMAIN c_keys THEN Some(c_keys[r.uri]) ELSE None

\* C15: try_hit looks in memory first and reads the disk only on a miss
\* there; a disk load puts the entry into memory before it returns; so a
\* load after a try_hit that returned a key, with no clear_memory between,
\* returns a response; load reads memory only.
C15_LoadAfterTryHit == []C15_LoadHits /\ [][C15_TryHitSteps]_vars

\* try_hit has returned the key of an entry it loaded from disk after
\* memory had been cleared, and load returns its response.
C15_Witness ==
    /\ HitReturned("u1")
    /\ c_closed = None /\ c_writer = None /\ c_hit = None
    /\ "u1" \in DOMAIN c_disk
    /\ from_parts(c_keys["u1"], c_responses["u1"]) = c_disk["u1"]
    /\ "u2" \in DOMAIN c_disk \ DOMAIN c_keys

\* The step is a clear_memory: the only one that forgets what try_hit
\* returned and touches neither the writer nor a running try_hit.
ClearStep == c_ret' = None /\ c_writer' = c_writer /\ c_hit' = c_hit

\* The key of the entry the disk holds for the uri.
PersistedKey(uri) == Unwrap(to_parts(c_disk[uri])).key

C16_ClearKeepsDisk ==
    /\ ClearStep =>
          /\ c_keys' = <<>>
          /\ c_responses' = <<>>
          /\ c_disk' = c_disk
          /\ \A uri \in DOMAIN c_disk :
                /\ load(c_responses', uri) = None
                /\ try_hit(c_keys', c_disk', uri) = Some(PersistedKey(uri))
    /\ \A uri \in DOMAIN c_disk :
          (c_keys = <<>> /\ IsSome(c_hit') /\ Unwrap(c_hit').uri_key = uri /\ c_hit = None) =>
              /\ Unwrap(c_hit').key = PersistedKey(uri)
              /\ Unwrap(c_hit').response = Unwrap(to_parts(c_disk[uri])).response
    /\ (IsSome(c_hit) /\ c_hit' = None) =>
          /\ load(c_responses', Unwrap(c_hit).uri_key) = Some(Unwrap(c_hit).response)
          /\ Unwrap(c_ret').val = Some(Unwrap(c_hit).key)

\* C16: clear_memory empties the maps in memory and leaves the disk store as
\* it is; right after it load misses for every persisted uri while try_hit
\* returns the persisted key, and the try_hit that reads it from disk puts
\* the entry back into memory.
C16_ClearMemoryKeepsDisk == [][C16_ClearKeepsDisk]_vars

\* Memory has been cleared while the disk holds an entry for u1: load
\* misses and try_hit returns the persisted key.
C16_Witness ==
    /\ c_keys = <<>> /\ c_responses = <<>>
    /\ c_ret = None /\ c_hit = None
    /\ "u1" \in DOMAIN c_disk
    /\ load(c_responses, "u1") = None
    /\ try_hit(c_keys, c_disk, "u1") = Some(ETag("e1"))

\* No writer is open and no try_hit is running.
CacheQuiet == c_writer = None /\ c_hit = None

\* C17 as claimed: once every writer and every try_hit has finished, the
\* entry in memory for a uri equals the entry on disk whenever both exist.
C17_MemoryEqualsDisk ==
    CacheQuiet =>
        \A uri \in DOMAIN c_keys \cap DOMAIN c_disk :
            from_parts(c_keys[uri], c_responses[uri]) = c_disk[uri]

-----------------------------------------------------------------------------
(* More properties of calculate_score (SpecScore) *)

\* calculate_score has returned.
Scored == IsSome(score_result)

\* The label rules of the config whose name matches a label of the item and
\* whose effect parses, in configured order.
MatchingRules(pr, config) ==
    IF IsSome(config.labels)
    THEN LET Matches(rule) ==
                 /\ \E l \in pr.labels : l[1] = rule.name[1]
                 /\ IsSome(EffectParse(rule.effect))
         IN  SelectSeq(Unwrap(config.labels), Matches)
    ELSE <<>>

\* The labels of the breakdown entries expected for the item and config:
\* age, approvals, size, the matching label rules, previously reviewed.
ExpectedFactors(pr, config) ==
    (IF IsSome(config.age) /\ IsSome(EffectParse(Unwrap(config.age)))
     THEN <<<<"Age">>>> ELSE <<>>)
    \o (IF IsSome(config.approvals)
           /\ IsSome(EffectParse(ApprovalsParseable(Unwrap(config.approvals))))
        THEN <<<<"Approvals">>>> ELSE <<>>)
    \o (IF /\ IsSome(config.size) /\ IsSome(Unwrap(config.size).buckets)
           /\ MatchedBucket(Size(pr), Unwrap(Unwrap(config.size).buckets)) > 0
        THEN <<<<"Size">>>> ELSE <<>>)
    \o [k \in 1..Len(MatchingRules(pr, config)) |->
            <<"Label", MatchingRules(pr, config)[k].name>>]
    \o (IF /\ IsSome(config.previously_reviewed) /\ pr.user_has_reviewed
           /\ IsSome(EffectParse(Unwrap(config.previously_reviewed)))
        THEN <<<<"Previously Reviewed">>>> ELSE <<>>)

\* C18: the breakdown lists the fired factors in the order age, approvals,
\* size, labels (in configured order), previously reviewed; the first entry
\* starts from the base score, every later entry from the score the entry
\* before it ended with, and the score returned is the last entry's, floored
\* at zero.
C18_FactorsInOrder ==
    Scored =>
        LET res == Unwrap(score_result)
            config == Unwrap(score_config)
            factors == res.breakdown.factors
            base == IF IsSome(config.base_score) THEN Unwrap(config.base_score) ELSE 100
            last == IF factors = <<>> THEN base ELSE factors[Len(factors)].after
        IN  /\ res.breakdown.base_score = base
            /\ [k \in 1..Len(factors) |-> factors[k].label]
                  = ExpectedFactors(Unwrap(score_pr), config)
            /\ factors # <<>> => factors[1].before = base
            /\ \A k \in 2..Len(factors) : factors[k].before = factors[k - 1].after
            /\ res.score = IF last > 0 THEN last ELSE 0

\* Every kind of factor has fired, two label rules among them, and the
\* order of the label rules shows in the score.
C18_Witness ==
    /\ Scored
    /\ LET factors == Unwrap(score_result).breakdown.factors IN
       /\ Len(factors) = 6
       /\ factors[4].label = <<"Label", Urgent>>
       /\ factors[5].label = <<"Label", Wip>>
       /\ factors[5].after = 0 - (factors[4].before + 10)
       /\ factors[6].label = <<"Previously Reviewed">>

\* The positions of the buckets whose range parses and matches the value.
RangeHits(value, buckets) ==
    {i \in 1..Len(buckets) :
        /\ IsSome(RangeParse(buckets[i].range))
        /\ RangeMatches(Unwrap(RangeParse(buckets[i].range)), value)}

\* The positions of the buckets whose range matches the value and whose
\* effect parses.
UsableHits(value, buckets) ==
    {i \in RangeHits(value, buckets) : IsSome(EffectParse(buckets[i].effect))}

\* The entries of the breakdown for the size factor.
SizeEntries(factors) == SelectSeq(factors, LAMBDA f : f.label = <<"Size">>)

\* The size step of the result is that of the first bucket among hits: no
\* entry when hits is empty, else one entry, by the first bucket's effect
\* applied once.
SizeStepIsFirstOf(hits, buckets, factors) ==
    LET entries == SizeEntries(factors) IN
    IF hits = {} THEN entries = <<>>
    ELSE LET first == CHOOSE i \in hits : \A j \in hits : i <= j
             effect == EffectParse(buckets[first].effect)
         IN  /\ Len(entries) = 1
             /\ IsSome(effect)
             /\ entries[1].after = EffectApply(Unwrap(effect), entries[1].before, 1)

\* calculate_score has returned for a config with size buckets.
ScoredWithBuckets ==
    /\ Scored
    /\ IsSome(Unwrap(score_config).size)
    /\ IsSome(Unwrap(Unwrap(score_config).size).buckets)

\* C19 as stated: only the first bucket whose range matches the size has
\* its effect applied, once; later matching buckets are ignored, and no
\* matching bucket means no size entry.
C19_FirstRangeMatchApplied ==
    ScoredWithBuckets =>
        LET buckets == Unwrap(Unwrap(Unwrap(score_config).size).buckets)
        IN  SizeStepIsFirstOf(RangeHits(Size(Unwrap(score_pr)), buckets), buckets,
                              Unwrap(score_result).breakdown.factors)

\* C19 as amended: only the first bucket whose range matches the size and
\* whose effect parses has its effect applied, once; later matching buckets
\* are ignored, and no such bucket means no size entry.
C19_FirstUsableMatchApplied ==
    ScoredWithBuckets =>
        LET buckets == Unwrap(Unwrap(Unwrap(score_config).size).buckets)
        IN  SizeStepIsFirstOf(UsableHits(Size(Unwrap(score_pr)), buckets), buckets,
                              Unwrap(score_result).breakdown.factors)

\* Base 100, buckets [("<100", "x2"), ("<200", "x3")], size 50, no other
\* factor: both buckets match and the score is 200.
C19_Witness ==
    /\ ScoredWithBuckets
    /\ LET buckets == Unwrap(Unwrap(Unwrap(score_config).size).buckets)
           res == Unwrap(score_result)
       IN  /\ Cardinality(UsableHits(Size(Unwrap(score_pr)), buckets)) = 2
           /\ Size(Unwrap(score_pr)) = 50
           /\ res.breakdown.base_score = 100
           /\ Len(res.breakdown.factors) = 1
           /\ res.score = 200

\* The size C20 names: filtered_size when it is present, else additions +
\* deletions.
FilteredOrTotal(pr) ==
    IF IsSome(pr.filtered_size) THEN Unwrap(pr.filtered_size)
    ELSE pr.additions + pr.deletions

\* C20: the size the buckets are matched against is the item's filtered_size
\* when it is present, and additions + deletions otherwise.
C20_SizeIsFilteredSize ==
    ScoredWithBuckets =>
        LET buckets == Unwrap(Unwrap(Unwrap(score_config).size).buckets)
        IN  SizeStepIsFirstOf(UsableHits(FilteredOrTotal(Unwrap(score_pr)), buckets),
                              buckets, Unwrap(score_result).breakdown.factors)

-----------------------------------------------------------------------------
(* Properties of merge_scoring_configs (SpecMerge) *)

\* merge_scoring_configs has returned.
Merged == fn_in # <<>> /\ fn_in.fn = "merge_scoring_configs" /\ IsSome(fn_out)

\* A query config whose fields are all absent.
AllAbsent == ScoringConfig(None, None, None, None, None, None)

\* C21: merging a global config with no query config, or with a query config
\* whose fields are all absent, returns the global config itself.
C21_MergeNothingIsGlobal ==
    Merged /\ fn_in.query \in {None, Some(AllAbsent)} =>
        Unwrap(fn_out) = fn_in.global

\* A global config with labels and a size section was merged with a query
\* config whose fields are all absent.
C21_Witness ==
    /\ Merged
    /\ fn_in.query = Some(AllAbsent)
    /\ IsSome(fn_in.global.labels)
    /\ IsSome(fn_in.global.size)
    /\ IsSome(fn_in.global.base_score)

\* The exclude globs and the buckets of a config, None when it has no size
\* section.
ExcludeOf(config) == IF config.size = None THEN None ELSE Unwrap(config.size).exclude
BucketsOf(config) == IF config.size = None THEN None ELSE Unwrap(config.size).buckets

\* The merged value is the query's when the query has one, else the global's.
QueryElseGlobal(merged, query, global) ==
    IF query # None THEN merged = query ELSE merged = global

\* C22: base_score, age, approvals, previously_reviewed, size.exclude and
\* size.buckets are each merged on their own: the query's value if it is
\* present, the global value otherwise.
C22_FieldwiseOverride ==
    Merged /\ fn_in.query # None =>
        LET g == fn_in.global
            q == Unwrap(fn_in.query)
            m == Unwrap(fn_out)
        IN  /\ QueryElseGlobal(m.base_score, q.base_score, g.base_score)
            /\ QueryElseGlobal(m.age, q.age, g.age)
            /\ QueryElseGlobal(m.approvals, q.approvals, g.approvals)
            /\ QueryElseGlobal(m.previously_reviewed, q.previously_reviewed,
                               g.previously_reviewed)
            /\ QueryElseGlobal(ExcludeOf(m), ExcludeOf(q), ExcludeOf(g))
            /\ QueryElseGlobal(BucketsOf(m), BucketsOf(q), BucketsOf(g))

\* The query overrides only the exclude globs and inherits the global
\* buckets, and inherits the global age while overriding the base score.
C22_Witness ==
    /\ Merged
    /\ fn_in.query # None
    /\ LET g == fn_in.global
           q == Unwrap(fn_in.query)
           m == Unwrap(fn_out)
       IN  /\ ExcludeOf(q) # None /\ ExcludeOf(g) # None /\ ExcludeOf(m) = ExcludeOf(q)
           /\ BucketsOf(q) = None /\ BucketsOf(g) # None /\ BucketsOf(m) = BucketsOf(g)
           /\ q.age = None /\ g.age # None /\ m.age = g.age
           /\ q.base_score # None /\ g.base_score # None /\ m.base_score = q.base_score

\* The rules of a label list, as a set.
Rules(labels) == {labels[i] : i \in 1..Len(labels)}

\* Two label names are equal after case folding.
SameFoldedName(a, b) == a.name[1] = b.name[1]

\* C23: when both configs define labels, the merged list holds every global
\* rule for whose case-folded name the query has no rule, and every query
\* rule, and nothing else.
C23_LabelsMergedByName ==
    Merged /\ fn_in.query # None
           /\ fn_in.global.labels # None /\ Unwrap(fn_in.query).labels # None =>
        LET g == Rules(Unwrap(fn_in.global.labels))
            q == Rules(Unwrap(Unwrap(fn_in.query).labels))
            m == Unwrap(Unwrap(fn_out).labels)
        IN  /\ Rules(m) = {r \in g : \A o \in q : ~SameFoldedName(r, o)} \cup q
            /\ \A i, j \in 1..Len(m) : m[i] = m[j] => i = j

-----------------------------------------------------------------------------
(* Properties of validate_scoring (SpecValidate) *)

\* validate_scoring has returned.
Validated == fn_in # <<>> /\ fn_in.fn = "validate_scoring" /\ IsSome(fn_out)

\* Sizes around every number the drawn ranges name.
ProbeSizes == {0, 99, 100, 101, 499, 500, 501}

\* Two buckets whose ranges both match some size.
ShareASize(b1, b2) ==
    /\ IsSome(RangeParse(b1.range))
    /\ IsSome(RangeParse(b2.range))
    /\ \E v \in ProbeSizes : /\ RangeMatches(Unwrap(RangeParse(b1.range)), v)
                             /\ RangeMatches(Unwrap(RangeParse(b2.range)), v)

BucketsIn(config) ==
    IF IsSome(config.size) /\ IsSome(Unwrap(config.size).buckets)
    THEN Unwrap(Unwrap(config.size).buckets) ELSE <<>>

ExcludesIn(config) ==
    IF IsSome(config.size) /\ IsSome(Unwrap(config.size).exclude)
    THEN Unwrap(Unwrap(config.size).exclude) ELSE <<>>

LabelsIn(config) == IF IsSome(config.labels) THEN Unwrap(config.labels) ELSE <<>>

\* Some two buckets of the config match a common size.
HasOverlap(config) ==
    \E i, j \in 1..Len(BucketsIn(config)) :
        i < j /\ ShareASize(BucketsIn(config)[i], BucketsIn(config)[j])

\* The defects of a config, each named as the message reporting it names
\* its field.
Defects(config) ==
    {<<"scoring.base_score">> :
        x \in {b \in {config.base_score} : IsSome(b) /\ Unwrap(b) < 0}}
    \cup {<<"scoring.age">> : x \in {config.age} \cap {Some(<<Junk>>)}}
    \cup {<<"scoring.approvals">> : x \in {config.approvals} \cap {Some(<<Junk>>)}}
    \cup {<<"scoring.previously_reviewed">> :
             x \in {config.previously_reviewed} \cap {Some(<<Junk>>)}}
    \cup {<<"scoring.size.buckets.range", i - 1>> :
             i \in {k \in 1..Len(BucketsIn(config)) :
                       BucketsIn(config)[k].range = <<Junk>>}}
    \cup {<<"scoring.size.buckets.effect", i - 1>> :
             i \in {k \in 1..Len(BucketsIn(config)) :
                       BucketsIn(config)[k].effect = <<Junk>>}}
    \cup {<<"scoring.size.exclude", i - 1>> :
             i \in {k \in 1..Len(ExcludesIn(config)) : ExcludesIn(config)[k] = "[a"}}
    \cup {<<"scoring.labels.name", i - 1>> :
             i \in {k \in 1..Len(LabelsIn(config)) :
                       LabelsIn(config)[k].name = ValidatedBlank}}
    \cup {<<"scoring.labels.effect", i - 1>> :
             i \in {k \in 1..Len(LabelsIn(config)) :
                       LabelsIn(config)[k].effect = <<Junk>>}}
    \cup {<<"scoring.size.buckets">> : x \in {TRUE} \cap {HasOverlap(config)}}

\* The message reports the defect: it names the defect's field (for
\* overlapping buckets, the bucket list).
Reports(error, defect) ==
    IF defect = <<"scoring.size.buckets">>
    THEN error.at[1] = "scoring.size.buckets"
    ELSE error.at = defect

\* C24: the list validate_scoring returns has an entry for every defect of
\* the config, and is empty exactly when the config has none.
C24_EveryDefectReported ==
    Validated =>
        LET errs == Unwrap(fn_out)
            defects == Defects(fn_in.config)
        IN  /\ \A d \in defects : \E k \in 1..Len(errs) : Reports(errs[k], d)
            /\ errs = <<>> <=> defects = {}

-----------------------------------------------------------------------------
(* Properties of Effect::apply (SpecApply) *)

\* Effect::apply has returned.
Applied == fn_in # <<>> /\ fn_in.fn = "apply" /\ IsSome(fn_out)

\* n to the power u, as the product of u factors n.
Power(n, u) ==
    LET p[k \in 0..u] == IF k = 0 THEN 1 ELSE n * p[k - 1]
    IN  p[u]

\* C26: AddPerUnit(n, d) gives s + n*u and MultiplyPerUnit(n, d) gives
\* s * n^u; Add(n) and Multiply(n) give s + n and s * n whatever the unit
\* count u is.
C26_ApplyFormulas ==
    Applied =>
        LET n == fn_in.effect.n
            s == fn_in.score
            u == fn_in.units
            kind == fn_in.effect.kind
        IN  /\ kind = "AddPerUnit" => Unwrap(fn_out) = s + n * u
            /\ kind = "MultiplyPerUnit" => Unwrap(fn_out) = s * Power(n, u)
            /\ kind = "Add" => Unwrap(fn_out) = s + n
            /\ kind = "Multiply" => Unwrap(fn_out) = s * n

\* A flat multiplication was applied with a unit count of zero and changed
\* the score.
C26_Witness ==
    /\ Applied
    /\ fn_in.effect.kind = "Multiply"
    /\ fn_in.units = 0
    /\ fn_in.score = 100
    /\ Unwrap(fn_out) = 200

-----------------------------------------------------------------------------
(* Properties of run_tui (SpecTui) *)

\* The pending fetch task has ended with the given outcome and the loop
\* has not looked at it yet.
PendingEnded(out) == IsSome(pending_fetch) /\ Unwrap(pending_fetch).out = Some(out)

\* A loop iteration takes the ended task out of pending_fetch.
HandledStep ==
    /\ IsSome(pending_fetch)
    /\ IsSome(Unwrap(pending_fetch).out)
    /\ pending_fetch' # pending_fetch

\* A refresh is wanted and nothing holds it back: no fetch is pending, and
\* it is a manual refresh or neither a modal nor a recent key press
\* suppresses it.
RefreshReady ==
    /\ ~should_quit
    /\ pending_fetch = None
    /\ needs_refresh
    /\ force_refresh \/ (~modal_open /\ ~recent_interaction)

\* No fetch runs for more than 20 seconds, and one that has not returned by
\* then has ended as timed out.
C27_Bounded ==
    IsSome(pending_fetch) =>
        /\ Unwrap(pending_fetch).secs <= 20
        /\ PendingEnded("elapsed") => Unwrap(pending_fetch).secs = 20

\* The displayed lists change only to the lists of a fetch that returned
\* Ok; the iteration that finds a timed-out fetch leaves them alone, shows
\* the time-out message, and clears the loading state and pending_fetch
\* unless it starts a new fetch at once.
C27_Abandoned ==
    /\ shown_prs' # shown_prs => PendingEnded("ok") /\ shown_prs' = Unwrap(pending_fetch).id
    /\ PendingEnded("elapsed") /\ HandledStep =>
           /\ shown_prs' = shown_prs
           /\ flash' = "timed out"
           /\ \/ pending_fetch' = None /\ ~is_loading'
              \/ /\ spawned' = spawned + 1
                 /\ pending_fetch' = Some(FetchTask(spawned', 20, 0, None))
                 /\ is_loading'

\* No loop iteration leaves a ready refresh waiting: while more fetches may
\* be spawned, the only step between two states in which a refresh is ready
\* is the ageing of the last key press.
C27_Restarted ==
    RefreshReady /\ RefreshReady' /\ spawned < MaxFetches =>
        recent_interaction /\ ~recent_interaction'

\* C27: every fetch of the dashboard is bounded by the 20-second timeout; a
\* fetch that has not completed by then is abandoned, its result is never
\* displayed, the loading state is cleared, and a new fetch is started by
\* the next loop iteration in which a refresh is wanted and not suppressed.
C27_FetchTimesOut == []C27_Bounded /\ [][C27_Abandoned /\ C27_Restarted]_vars

\* The first fetch timed out, nothing of it was displayed, and a second
\* fetch runs.
C27_Witness ==
    /\ flash = "timed out"
    /\ shown_prs = 0
    /\ IsSome(pending_fetch)
    /\ Unwrap(pending_fetch).id = 2
    /\ Unwrap(pending_fetch).out = None
    /\ is_loading

-----------------------------------------------------------------------------
(* Properties across search_and_enrich_prs and calculate_score (Spec) *)

\* The copies of the item at position i in the returned list.
ReturnedCopies(i) ==
    {p \in BagToSet(Unwrap(result).val) : p.number = prs[i].number}

\* C28: the ScoreResult computed for a returned item has its incomplete flag
\* set when the item's enrichment failed or was skipped, and clear when the
\* item was fully enriched.
C28_PartialDataSignalled ==
    Returned =>
        \A i \in 1..Len(prs) : \A p \in ReturnedCopies(i) :
            calculate_score(p, 0, AllAbsent).incomplete = (joined[i] # "ok")

-----------------------------------------------------------------------------
(* More properties of fetch_and_score_prs (SpecFetch) *)

\* The (item, result) pairs of both scored lists.
ScoredPairs ==
    {active_scored[i] : i \in 1..Len(active_scored)}
    \cup {snoozed_scored[i] : i \in 1..Len(snoozed_scored)}

\* The exclude globs of query q's effective config: the query's own when its
\* scoring section has them, else the global ones.
EffectiveExclude(q) ==
    LET own == IF queries[q].scoring = None THEN None
               ELSE ExcludeOf(Unwrap(queries[q].scoring))
    IN  IF own # None THEN own ELSE ExcludeOf(global_scoring)

\* C29: every scored item is a copy that the query remembered for its url
\* returned; its filtered_size, when set, was computed with that query's
\* effective exclude globs; and its score is calculate_score under the
\* merge of the global config with that same query's config.
C29_ScoredWithOwnQuery ==
    Deduplicated =>
        \A e \in ScoredPairs :
            LET pr == e[1]
                q == pr_to_query_index[pr.url]
            IN  /\ q \in 1..Len(queries)
                /\ IsSome(f_results[q])
                /\ Unwrap(f_results[q]).ok
                /\ \E k \in 1..Len(Unwrap(f_results[q]).val) :
                       Unwrap(f_results[q]).val[k] = pr
                /\ IsSome(pr.filtered_size) =>
                       /\ EffectiveExclude(q) # None
                       /\ pr.filtered_size
                              = apply_size_exclusions(FetchFiles(pr),
                                                      Unwrap(EffectiveExclude(q)))
                /\ \E t \in Clock :
                   \E scoring \in merge_scoring_configs(global_scoring, queries[q].scoring) :
                       e[2] = calculate_score(pr, t - pr.created_at, scoring)

\* Two queries with different exclude globs returned the same url; the copy
\* of the first query, filtered with the global "*.lock", was scored with the
\* global config alone although the second query has its own.
C29_Witness ==
    /\ Deduplicated
    /\ Len(queries) = 2
    /\ \E e \in ScoredPairs :
          /\ e[1].url = "u1"
          /\ e[1].filtered_size = Some(5)
          /\ pr_to_query_index["u1"] = 1
          /\ e[2].breakdown.base_score = 100
    /\ IsSome(f_results[2])
    /\ Unwrap(f_results[2]).ok
    /\ \E k \in 1..Len(Unwrap(f_results[2]).val) :
          /\ Unwrap(f_results[2]).val[k].url = "u1"
          /\ Unwrap(f_results[2]).val[k].filtered_size = Some(0)

-----------------------------------------------------------------------------
(* Breakdown entries of calculate_score (SpecScore) *)

\* The positions of the breakdown entries with the given label.
EntriesOf(factors, label) == {k \in 1..Len(factors) : factors[k].label = label}

\* The sum of the changes the entries record.
RECURSIVE RecordedChange(_)
RecordedChange(factors) ==
    IF factors = <<>> THEN 0
    ELSE (Head(factors).after - Head(factors).before) + RecordedChange(Tail(factors))

\* The entry records the step its label names: after is the step's
\* configured effect applied to before.
RecordsItsStep(entry, pr, age, config) ==
    LET Applies(str, units) ==
            /\ IsSome(EffectParse(str))
            /\ entry.after = EffectApply(Unwrap(EffectParse(str)), entry.before, units)
    IN  CASE entry.label = <<"Age">> ->
                 /\ IsSome(config.age)
                 /\ IsSome(EffectParse(Unwrap(config.age)))
                 /\ Applies(Unwrap(config.age),
                            calculate_units(Unwrap(EffectParse(Unwrap(config.age))), age))
          [] entry.label = <<"Approvals">> ->
                 /\ IsSome(config.approvals)
                 /\ Applies(ApprovalsParseable(Unwrap(config.approvals)), pr.approvals)
          [] entry.label = <<"Size">> ->
                 \E k \in RangeHits(Size(pr), BucketsIn(config)) :
                     Applies(BucketsIn(config)[k].effect, 1)
          [] entry.label = <<"Previously Reviewed">> ->
                 /\ IsSome(config.previously_reviewed)
                 /\ Applies(Unwrap(config.previously_reviewed), 1)
          [] OTHER ->
                 /\ Len(entry.label) = 2
                 /\ entry.label[1] = "Label"
                 /\ \E k \in 1..Len(LabelsIn(config)) :
                        /\ LabelsIn(config)[k].name = entry.label[2]
                        /\ Applies(LabelsIn(config)[k].effect, 1)

\* C30: every breakdown entry records one step with the score before and
\* after it, the entries account for the whole change from the base score
\* to the score returned, no step has more than one entry, and a step with
\* no configured effect or no match (no bucket whose range holds the size,
\* a label rule naming no label of the item, previously-reviewed when the
\* viewer has not reviewed) has none.
C30_EntryPerFiredStep ==
    Scored =>
        LET res == Unwrap(score_result)
            pr == Unwrap(score_pr)
            config == Unwrap(score_config)
            factors == res.breakdown.factors
            raw == res.breakdown.base_score + RecordedChange(factors)
        IN  /\ \A k \in 1..Len(factors) : RecordsItsStep(factors[k], pr, score_age, config)
            /\ res.score = IF raw > 0 THEN raw ELSE 0
            /\ \A label \in {<<"Age">>, <<"Approvals">>, <<"Size">>,
                             <<"Previously Reviewed">>} :
                   Cardinality(EntriesOf(factors, label)) <= 1
            /\ \A name \in {Urgent, UrgentUpper, Wip} :
                   Cardinality(EntriesOf(factors, <<"Label", name>>))
                       <= Cardinality({k \in 1..Len(LabelsIn(config)) :
                                          LabelsIn(config)[k].name = name})
            /\ config.age = None => EntriesOf(factors, <<"Age">>) = {}
            /\ config.approvals = None => EntriesOf(factors, <<"Approvals">>) = {}
            /\ RangeHits(Size(pr), BucketsIn(config)) = {} => EntriesOf(factors, <<"Size">>) = {}
            /\ \A name \in {Urgent, UrgentUpper, Wip} :
                   (\A l \in pr.labels : l[1] # name[1])
                       => EntriesOf(factors, <<"Label", name>>) = {}
            /\ (config.previously_reviewed = None \/ ~pr.user_has_reviewed)
                   => EntriesOf(factors, <<"Previously Reviewed">>) = {}

\* Every factor is configured; the age step changed the score and has its
\* entry, while the size (no bucket holds 250 lines), the label rules (the
\* item has no label) and previously-reviewed (not reviewed) have none.
C30_Witness ==
    /\ Scored
    /\ LET pr == Unwrap(score_pr)
           config == Unwrap(score_config)
           factors == Unwrap(score_result).breakdown.factors
       IN  /\ IsSome(config.age) /\ IsSome(config.approvals)
           /\ BucketsIn(config) # <<>> /\ LabelsIn(config) # <<>>
           /\ IsSome(config.previously_reviewed)
           /\ pr.labels = {} /\ ~pr.user_has_reviewed
           /\ pr.additions + pr.deletions = 250
           /\ Len(factors) = 2
           /\ factors[1].label = <<"Age">>
           /\ factors[1].after # factors[1].before
           /\ factors[2].label = <<"Approvals">>

-----------------------------------------------------------------------------
(* Properties of the age and approvals factors and of Effect::parse (SpecEffect) *)

\* The call named fn has returned.
Called(fn) == fn_in # <<>> /\ fn_in.fn = fn /\ IsSome(fn_out)

\* The per-unit effect the string of the call denotes, read off its tokens:
\* Some(<<n, unit in ms>>) for "+n per <number><unit>" or "xn per
\* <number><unit>", else None.
PerUnitOf(s) ==
    IF /\ Len(s) = 5
       /\ s[1].k \in {"+", "x"} /\ s[2].k = "num" /\ s[3].k = "per"
       /\ s[4].k = "num" /\ s[5].k = "unit"
    THEN Some(<<s[2].v, s[4].v * s[5].v>>)
    ELSE None

\* C31: with a per-unit age effect the unit count applied is
\* floor(max(0, age) / unit duration), 0 for an item created in the future;
\* base 100 with "+1 per 1h" at 24 h gives 124.
C31_UnitsAreFloorOfAge ==
    Called("age") /\ IsSome(PerUnitOf(fn_in.s)) =>
        LET unit == Unwrap(PerUnitOf(fn_in.s))[2]
            age_ms == IF fn_in.age > 0 THEN fn_in.age * 1000 ELSE 0
            out == Unwrap(fn_out)
        IN  /\ unit > 0
            /\ out.units = Some(age_ms \div unit)
            /\ (fn_in.s = <<Plus, Num(1), Per, Num(1), Hours>> /\ fn_in.age = 86400)
                   => out.run.score = 124

\* The approvals string of the call when it is "<+ or x><n> per <N>" with N
\* a bare number: Some(<<n, N>>), else None.
PerCountOf(s) ==
    IF /\ Len(s) = 4
       /\ s[1].k \in {"+", "x"} /\ s[2].k = "num" /\ s[3].k = "per" /\ s[4].k = "num"
    THEN Some(<<s[2].v, s[4].v>>)
    ELSE None

\* C32: an approvals effect "<effect> per <N>" with N a bare number is applied
\* floor(approvals / N) times: "+n per N" adds n * floor(a / N), "xn per N"
\* multiplies by n to the power floor(a / N).
C32_PerNApprovals ==
    Called("approvals") /\ IsSome(PerCountOf(fn_in.s)) =>
        LET n == Unwrap(PerCountOf(fn_in.s))[1]
            per == Unwrap(PerCountOf(fn_in.s))[2]
            units == fn_in.approvals \div per
            out == Unwrap(fn_out)
        IN  out.run.score = IF fn_in.s[1].k = "+" THEN fn_in.base_score + n * units
                            ELSE fn_in.base_score * Power(n, units)

\* C33: every per-unit effect that Effect::parse returns carries a strictly
\* positive unit duration.
C33_PerUnitHasPositiveUnit ==
    Called("parse") =>
        LET r == Unwrap(fn_out) IN
        (IsSome(r) /\ Unwrap(r).kind \in {"AddPerUnit", "MultiplyPerUnit"})
            => Unwrap(r).unit > 0

-----------------------------------------------------------------------------
(* Properties of do_ranges_overlap (SpecOverlap) *)

\* The sizes that decide whether two drawn ranges share a value: a shared
\* value, if there is one, can be taken no larger than the largest number
\* written plus one.
OverlapProbes == 0..(MaxRangeValue + 1)

\* The sizes among the probes that the range string matches, read off its
\* tokens.
SizesOf(s) ==
    {v \in OverlapProbes :
        CASE s[1] = Lt -> v < s[2].v
          [] s[1] = Le -> v <= s[2].v
          [] s[1] = Gt -> v > s[2].v
          [] s[1] = Ge -> v >= s[2].v
          [] Len(s) = 1 -> v = s[1].v
          [] OTHER -> v >= s[1].v /\ v <= s[3].v}

\* C34: do_ranges_overlap(r1, r2) is true exactly when some size matches
\* both ranges.
C34_OverlapIsExact ==
    Called("do_ranges_overlap") =>
        (Unwrap(fn_out) <=> (SizesOf(fn_in.s1) \cap SizesOf(fn_in.s2) # {}))

-----------------------------------------------------------------------------
(* More properties of run_tui (SpecTui) *)

\* A loop iteration has spawned a fetch.
SpawnStep == spawned' = spawned + 1

\* A manual refresh does not wait once no fetch is pending: no loop
\* iteration ends with a manual refresh wanted and pending_fetch empty.
C35_ManualNotWaiting ==
    /\ force_refresh => needs_refresh
    /\ (needs_refresh /\ force_refresh) => IsSome(pending_fetch)

\* needs_refresh is set by the Refresh event and by 'r', and goes back to
\* false only in an iteration that spawns a fetch.
C35_KeptUntilSpawn == (needs_refresh /\ ~needs_refresh') => SpawnStep

\* An iteration that spawns an automatic refresh found no modal open and
\* no recent key press; every spawn finds a refresh wanted or asks for one
\* itself, and no fetch pending or the pending one ended.
C35_AutoOnlyWhenQuiet ==
    SpawnStep =>
        /\ refresh_kind' \in {"auto", "manual"}
        /\ refresh_kind' = "auto" => (~modal_open' /\ ~recent_interaction' /\ ~force_refresh)
        /\ pending_fetch = None \/ IsSome(Unwrap(pending_fetch).out)

\* C35: a wanted refresh stays wanted until a fetch is spawned; an automatic
\* refresh is spawned only with no modal open and no key press in the last
\* ten seconds; a manual one is spawned by the first iteration that finds no
\* fetch pending, modal or recent key press or not.
C35_RefreshNeverLost ==
    []C35_ManualNotWaiting /\ [][C35_KeptUntilSpawn /\ C35_AutoOnlyWhenQuiet]_vars

\* A manual refresh asked for while the first fetch ran was spawned with the
\* help screen open and a key pressed just before.
C35_Witness ==
    /\ refresh_kind = "manual"
    /\ spawned = 2
    /\ IsSome(pending_fetch)
    /\ Unwrap(pending_fetch).secs = 0
    /\ ~needs_refresh
    /\ input_mode = "Help"
    /\ recent_interaction

\* The fetch tasks in flight are at most one, the pending one.
C37_OneInFlight ==
    /\ Cardinality(in_flight) <= 1
    /\ in_flight # {} =>
           /\ IsSome(pending_fetch)
           /\ Unwrap(pending_fetch).out = None
           /\ in_flight = {Unwrap(pending_fetch).id}

\* A step that spawns a fetch starts from no fetch in flight; a step after
\* which clear_memory has run is such a step, spawns a manual refresh, and
\* the fetch it spawned has not run yet.
C37_ClearedBetweenFetches ==
    /\ SpawnStep => in_flight = {}
    /\ (cleared' /\ (~cleared \/ spawned' # spawned)) =>
           /\ SpawnStep
           /\ in_flight = {}
           /\ refresh_kind' = "manual"
           /\ in_flight' = {spawned'}
           /\ Unwrap(pending_fetch').secs = 0

\* C37: the dashboard never has two fetches in flight, and clear_memory runs
\* only in a manual refresh, with no fetch in flight, before the new fetch
\* has started.
C37_NoClearUnderFetch == []C37_OneInFlight /\ [][C37_ClearedBetweenFetches]_vars

\* The first fetch has returned and a manual refresh has cleared the
\* memory cache and spawned the second fetch.
C37_Witness ==
    /\ cleared
    /\ refresh_kind = "manual"
    /\ spawned = 2
    /\ shown_prs = 1
    /\ in_flight = {2}

\* C38: once a fetch result has been displayed, no url of the active list is
\* snoozed in the app's snooze state and every url of the snoozed list is.
C38_ListsAgreeWithSnoozeState ==
    shown_prs > 0 =>
        /\ app_active_prs \cap app_snooze_state = {}
        /\ app_snoozed_prs \subseteq app_snooze_state

-----------------------------------------------------------------------------
(* More properties of DiskCache (SpecCache) *)

\* The step opens a writer, gives the open writer bytes, or ends the drop of
\* a writer whose body is no JSON document: the steps of a writer that is
\* closed without being accepted.
UnacceptedWriterStep ==
    \/ c_writer = None /\ IsSome(c_writer')
    \/ /\ IsSome(c_writer) /\ IsSome(c_writer') /\ c_writer' # c_writer
       /\ Unwrap(c_writer).phase = "open" /\ Unwrap(c_writer').phase = "open"
    \/ DropStep /\ ~IsJson(Unwrap(c_writer).response.body)

\* What the callers can see of a url: the results of try_hit and load, and
\* the entry in the durable store.
Available(keys, responses, disk, uri) ==
    [hit |-> try_hit(keys, disk, uri),
     body |-> load(responses, uri),
     stored |-> IF uri \in DOMAIN disk THEN Some(disk[uri]) ELSE None]

C39_FrameStep ==
    UnacceptedWriterStep =>
        /\ \A uri \in Uris :
              Available(c_keys', c_responses', c_disk', uri)
                  = Available(c_keys, c_responses, c_disk, uri)
        /\ DropStep => c_writer' = None

\* C39: closing a cache writer whose body is rejected (not well-formed JSON)
\* changes no cache state: from the opening of the writer to the end of its
\* drop, try_hit and load return for every url what they returned before,
\* and the durable store keeps every entry as it was, so an entry accepted
\* earlier for the same url stays available and unchanged.
C39_RejectedCloseChangesNothing == [][C39_FrameStep]_vars

\* A writer for a url was closed with a rejected body while the url has an
\* accepted entry in memory and in the durable store, and so has the other url.
C39_Witness ==
    /\ RejectedClose
    /\ Unwrap(c_closed).body = <<"]">>
    /\ \A uri \in Uris :
          /\ IsSome(load(c_responses, uri))
          /\ IsJson(Unwrap(load(c_responses, uri)).body)
          /\ uri \in DOMAIN c_keys
          /\ uri \in DOMAIN c_disk
          /\ c_disk[uri].body = Unwrap(load(c_responses, uri)).body

-----------------------------------------------------------------------------
(* More properties of fetch_and_score_prs (SpecFetch) *)

\* The (pr, query_index) pairs of the queries from the i-th on, as all_prs
\* holds them when the queries complete in the order of the config.
RECURSIVE InConfigOrder(_)
InConfigOrder(i) ==
    IF i > Len(f_results) THEN <<>>
    ELSE LET r == Unwrap(f_results[i])
         IN  (IF r.ok THEN [k \in 1..Len(r.val) |-> <<r.val[k], i>>] ELSE <<>>)
             \o InConfigOrder(i + 1)

\* C36: the result of fetch_and_score_prs does not depend on the order in
\* which the queries complete: the unique items, the query each is
\* attributed to, and so the config each is scored with, are those of the
\* run in which the queries complete in the order of the config.
C36_CompletionOrderIrrelevant ==
    f_pc = "ratelimit" =>
        LET d == DedupFrom(InConfigOrder(1), Dedup({}, <<>>, <<>>)) IN
        /\ {unique_prs[k] : k \in 1..Len(unique_prs)}
               = {d.unique_prs[k] : k \in 1..Len(d.unique_prs)}
        /\ pr_to_query_index = d.pr_to_query_index

-----------------------------------------------------------------------------
(* More properties of merge_scoring_configs (SpecMerge) *)

\* An item with the labels urgent and wip, which several rules match.
LabelledPr == ScoredPr("u1", 0, {Urgent, Wip}, <<30, 20>>, 0, FALSE, None)

\* C40: merge_scoring_configs is deterministic, the order of the merged
\* label list included: whatever a call returned, every call with the same
\* global and query config returns the same ordered label list, and an item
\* matching several label rules gets the same score with each result.
C40_MergeIsDeterministic ==
    Merged =>
        \A again \in merge_scoring_configs(fn_in.global, fn_in.query) :
            /\ again.labels = Unwrap(fn_out).labels
            /\ calculate_score(LabelledPr, 0, again).score
                   = calculate_score(LabelledPr, 0, Unwrap(fn_out)).score

====
